---- MODULE Spec2Model ----
(***************************************************************************)
(* Model of the B-Rep extraction pipeline (GeometryExtractor.extract_all): *)
(* VertexExtractor, EdgeExtractor, FaceExtractor and AdjacencyBuilder, and *)
(* of the weld-seam classifier (WeldDetector), the corner-joint template   *)
(* (CornerJointTemplate), the assembler (GeometrySerializer), the session  *)
(* store (SessionService) and the upload route.                            *)
(*                                                                         *)
(* The geometry kernel is the environment.  A shape is the sequence of its *)
(* face occurrences, each face with the edges of its outer wire and of its *)
(* other wires and each edge with its vertices; the kernel's explorers and *)
(* its ancestor map are computed from that structure the way the kernel    *)
(* traverses it.                                                           *)
(***************************************************************************)
EXTENDS Integers, Sequences, FiniteSets, TLC

(* ---------------- bounds of the model ---------------- *)
MaxFaceVisits == 3
MaxWire == 2

(* identity keys (hash(x.TShape())) of the entities a shape may hold *)
VertexKeys == {1, 2}
EdgeKeys == {11, 12}
FaceKeys == {21, 22}

(* ---------------- generic helpers ---------------- *)
Range(s) == {s[i] : i \in 1..Len(s)}

SeqsUpTo(S, n) == UNION {[1..k -> S] : k \in 0..n}

RECURSIVE Flatten(_)
Flatten(ss) == IF ss = <<>> THEN <<>> ELSE Head(ss) \o Flatten(Tail(ss))

Count(s, x) == Cardinality({i \in 1..Len(s) : s[i] = x})

(* x repeated n times *)
Repeat(x, n) == [i \in 1..n |-> x]

(* first occurrences of s, in order *)
RECURSIVE FirstOccurrences(_)
FirstOccurrences(s) ==
    IF s = <<>> THEN <<>>
    ELSE LET init == FirstOccurrences(SubSeq(s, 1, Len(s) - 1))
             x == s[Len(s)]
         IN IF x \in Range(init) THEN init ELSE Append(init, x)

IsSorted(s) == \A i \in 1..(Len(s) - 1) : s[i] <= s[i + 1]

(* every order in which the elements of a finite set can be listed *)
Listings(S) == {p \in [1..Cardinality(S) -> S] : Range(p) = S}

RECURSIVE InsertSorted(_, _)
InsertSorted(s, x) ==
    IF s = <<>> THEN <<x>>
    ELSE IF x < Head(s) THEN <<x>> \o s
    ELSE <<Head(s)>> \o InsertSorted(Tail(s), x)

RECURSIVE SortAscending(_)
SortAscending(s) ==
    IF s = <<>> THEN <<>>
    ELSE InsertSorted(SortAscending(SubSeq(s, 1, Len(s) - 1)), s[Len(s)])

(* a list left in the order list(x) produced it *)
ListedOrder(s) == s

(* Python's sorted(list(x)) *)
PySorted(s) == SortAscending(s)

(* ---------------- the kernel (environment) ---------------- *)
(* A shape: its face occurrences in exploration order, the edge            *)
(* occurrences of each face's wire, the vertex occurrences of each edge,   *)
(* the edges without a 3D curve and the faces without a surface.           *)
EdgesIn(faces, wire) == UNION {Range(wire[f]) : f \in Range(faces)}

(* Identity keys are opaque: the code only tests them for equality, so a    *)
(* shape names its keys in the order the explorer first meets them.        *)
InVisitOrder(s, keys) ==
    LET fo == FirstOccurrences(s) IN fo = SubSeq(keys, 1, Len(fo))

FaceVisits == {fs \in SeqsUpTo(FaceKeys, MaxFaceVisits) : InVisitOrder(fs, <<21, 22>>)}

Wires(fs) ==
    {w \in [FaceKeys -> SeqsUpTo(EdgeKeys, MaxWire)] :
        /\ \A f \in FaceKeys : f \notin Range(fs) => w[f] = <<>>
        /\ InVisitOrder(Flatten([i \in 1..Len(fs) |-> w[fs[i]]]), <<11, 12>>)}

(* an edge occurrence has two vertex occurrences (a closed edge: the same  *)
(* vertex twice)                                                           *)
EdgeVertices(fs, w) ==
    LET es == FirstOccurrences(Flatten([i \in 1..Len(fs) |-> w[fs[i]]]))
    IN {ev \in [EdgeKeys -> SeqsUpTo(VertexKeys, 2)] :
          /\ \A e \in EdgeKeys :
                IF e \in Range(es) THEN Len(ev[e]) = 2 ELSE ev[e] = <<>>
          /\ InVisitOrder(Flatten([i \in 1..Len(es) |-> ev[es[i]]]), <<1, 2>>)}

(* The wires of a face other than its outer wire, each the sequence of    *)
(* its edge occurrences, for the faces that have any.                      *)
NoHoles == <<>>

Holes(S, f) == IF f \in DOMAIN S.holes THEN S.holes[f] ELSE <<>>

(* the edge occurrences of a face: its outer wire, then its other wires *)
FaceEdges(S, f) == S.wire[f] \o Flatten(Holes(S, f))

(* TopExp_Explorer(shape, TopAbs_FACE) *)
ExploreFaces(S) == S.faces

(* TopExp_Explorer(shape, TopAbs_EDGE) *)
ExploreEdges(S) == Flatten([i \in 1..Len(S.faces) |-> FaceEdges(S, S.faces[i])])

(* TopExp_Explorer(shape, TopAbs_VERTEX) *)
ExploreVertices(S) ==
    LET es == ExploreEdges(S) IN Flatten([i \in 1..Len(es) |-> S.everts[es[i]]])

(* topexp.MapShapesAndAncestors(shape, TopAbs_EDGE, TopAbs_FACE, map): one  *)
(* entry per edge in first-occurrence order; the face is appended once per *)
(* occurrence of the edge in a face occurrence.                            *)
MapShapesAndAncestors(S) ==
    LET keys == FirstOccurrences(ExploreEdges(S))
    IN [k \in 1..Len(keys) |->
          [key |-> keys[k],
           faces |-> Flatten([i \in 1..Len(S.faces) |->
                        Repeat(S.faces[i], Count(FaceEdges(S, S.faces[i]), keys[k]))])]]

(* ---------------- Python dictionaries ---------------- *)
(* d.get(h, -1) on a hash -> id dictionary *)
GetIdByHash(id_map, h) == IF h \in DOMAIN id_map THEN id_map[h] ELSE -1

(* d[k] = v *)
DictPut(d, k, v) == [x \in (DOMAIN d) \cup {k} |-> IF x = k THEN v ELSE d[x]]

EmptyDict == [x \in {} |-> 0]

(* A dictionary whose iteration order is read is kept as the sequence of   *)
(* its entries [k, v] in insertion order.                                  *)
ItemKeys(items) == {items[i].k : i \in 1..Len(items)}

ItemGet(items, key, default) ==
    IF key \in ItemKeys(items)
    THEN items[CHOOSE i \in 1..Len(items) : items[i].k = key].v
    ELSE default

ItemPut(items, key, value) ==
    IF key \in ItemKeys(items)
    THEN [i \in 1..Len(items) |->
            IF items[i].k = key THEN [k |-> key, v |-> value] ELSE items[i]]
    ELSE Append(items, [k |-> key, v |-> value])

(* ---------------- the extractors ---------------- *)
(* the state of an extract() loop: the output list, the hash -> id map and *)
(* the local id counter                                                    *)
EmptyRegistry == [data |-> <<>>, id_map |-> EmptyDict, next |-> 0]

(* no test for a hash already registered *)
AlwaysNewKey(h, id_map) == TRUE

(* "if x_hash not in self.x_id_map" *)
IsNewKey(h, id_map) == h \notin DOMAIN id_map

(* append the record, register its hash, "x_id += 1" *)
Register(st, h, rec) ==
    [data |-> Append(st.data, rec),
     id_map |-> DictPut(st.id_map, h, st.next),
     next |-> st.next + 1]

(* the id counter advanced for an entity that was not appended *)
SkippedAdvancingId(st) == [st EXCEPT !.next = @ + 1]

(* an entity whose extraction returned None: nothing is appended and the   *)
(* id counter is not advanced                                              *)
Skipped(st) == st

(* VertexExtractor.extract *)
RECURSIVE VertexLoop(_, _, _)
VertexLoop(visits, i, st) ==
    IF i > Len(visits) THEN st
    ELSE LET h == visits[i]
         IN IF IsNewKey(h, st.id_map)
            THEN VertexLoop(visits, i + 1, Register(st, h, [id |-> st.next, hash |-> h]))
            ELSE VertexLoop(visits, i + 1, st)

VertexExtract(S) == VertexLoop(ExploreVertices(S), 1, EmptyRegistry)

(* EdgeExtractor._get_edge_vertices: the ids of the edge's vertices, a     *)
(* vertex without an id left out                                           *)
GetEdgeVertices(S, e, vertex_id_map) ==
    LET ids == [i \in 1..Len(S.everts[e]) |-> GetIdByHash(vertex_id_map, S.everts[e][i])]
        known(x) == x >= 0
    IN SelectSeq(ids, known)

(* EdgeExtractor._extract_edge_geometry: <<>> for None *)
ExtractEdgeGeometry(S, e, edge_id, vertex_id_map) ==
    IF e \in S.noCurve THEN <<>>
    ELSE << [id |-> edge_id, hash |-> e,
             vertices |-> GetEdgeVertices(S, e, vertex_id_map),
             adjacent_faces |-> <<>>] >>

(* EdgeExtractor.extract *)
RECURSIVE EdgeLoop(_, _, _, _, _)
EdgeLoop(S, visits, i, st, vertex_id_map) ==
    IF i > Len(visits) THEN st
    ELSE LET h == visits[i]
             d == ExtractEdgeGeometry(S, h, st.next, vertex_id_map)
         IN EdgeLoop(S, visits, i + 1,
                IF IsNewKey(h, st.id_map)
                THEN IF d # <<>> THEN Register(st, h, d[1]) ELSE Skipped(st)
                ELSE st,
                vertex_id_map)

EdgeExtract(S, vertex_id_map) ==
    EdgeLoop(S, ExploreEdges(S), 1, EmptyRegistry, vertex_id_map)

(* FaceExtractor._extract_boundary_edges *)
ExtractBoundaryEdges(S, f, edge_id_map) ==
    LET ids == [i \in 1..Len(S.wire[f]) |-> GetIdByHash(edge_id_map, S.wire[f][i])]
        known(x) == x >= 0
    IN SelectSeq(ids, known)

(* an unknown edge stored with the id -1 that get_edge_id_by_hash returns *)
ExtractInnerEdgesUnfiltered(S, f, edge_id_map) ==
    LET hole_edges(wire) == [i \in 1..Len(wire) |-> GetIdByHash(edge_id_map, wire[i])]
        nonempty(ids) == ids # <<>>
    IN SelectSeq([n \in 1..Len(Holes(S, f)) |-> hole_edges(Holes(S, f)[n])], nonempty)

(* FaceExtractor._extract_inner_edges: one list of edge ids for each wire  *)
(* other than the outer wire, "if hole_edges: inner_edges.append(...)"     *)
ExtractInnerEdges(S, f, edge_id_map) ==
    LET known(x) == x >= 0
        hole_edges(wire) ==
            SelectSeq([i \in 1..Len(wire) |-> GetIdByHash(edge_id_map, wire[i])], known)
        nonempty(ids) == ids # <<>>
    IN SelectSeq([n \in 1..Len(Holes(S, f)) |-> hole_edges(Holes(S, f)[n])], nonempty)

(* FaceExtractor._extract_face_geometry: <<>> for None *)
ExtractFaceGeometry(S, f, face_id, edge_id_map) ==
    IF f \in S.noSurface THEN <<>>
    ELSE << [id |-> face_id, hash |-> f,
             boundary_edges |-> ExtractBoundaryEdges(S, f, edge_id_map),
             inner_edges |-> ExtractInnerEdges(S, f, edge_id_map)] >>

(* FaceExtractor.extract *)
RECURSIVE FaceLoop(_, _, _, _, _)
FaceLoop(S, visits, i, st, edge_id_map) ==
    IF i > Len(visits) THEN st
    ELSE LET h == visits[i]
             d == ExtractFaceGeometry(S, h, st.next, edge_id_map)
         IN FaceLoop(S, visits, i + 1,
                IF IsNewKey(h, st.id_map)
                THEN IF d # <<>> THEN Register(st, h, d[1]) ELSE Skipped(st)
                ELSE st,
                edge_id_map)

FaceExtract(S, edge_id_map) ==
    FaceLoop(S, ExploreFaces(S), 1, EmptyRegistry, edge_id_map)

(* ---------------- AdjacencyBuilder ---------------- *)
(* {x['hash']: x['id'] for x in data}: a later record wins *)
HashToId(data) ==
    [h \in {data[i].hash : i \in 1..Len(data)} |->
        LET last == CHOOSE i \in 1..Len(data) :
                       /\ data[i].hash = h
                       /\ \A j \in (i + 1)..Len(data) : data[j].hash # h
        IN data[last].id]

(* every face of the kernel's list translated, with -1 for a face that has *)
(* no id                                                                   *)
AdjacentFaceIdsUnchecked(face_list, face_hash_to_id) ==
    [i \in 1..Len(face_list) |-> GetIdByHash(face_hash_to_id, face_list[i])]

(* the inner loop of _build_edge_face_map: the ids of the faces of one     *)
(* kernel face list, a face without an id left out                         *)
AdjacentFaceIds(face_list, face_hash_to_id) ==
    LET known(h) == h \in DOMAIN face_hash_to_id
        kept == SelectSeq(face_list, known)
    IN [i \in 1..Len(kept) |-> face_hash_to_id[kept[i]]]

(* AdjacencyBuilder._build_edge_face_map *)
RECURSIVE EdgeFaceLoop(_, _, _, _, _)
EdgeFaceLoop(occ, i, efm, edge_hash_to_id, face_hash_to_id) ==
    IF i > Len(occ) THEN efm
    ELSE LET ids == AdjacentFaceIds(occ[i].faces, face_hash_to_id)
         IN EdgeFaceLoop(occ, i + 1,
                IF occ[i].key \in DOMAIN edge_hash_to_id /\ ids # <<>>
                THEN ItemPut(efm, edge_hash_to_id[occ[i].key], ids)
                ELSE efm,
                edge_hash_to_id, face_hash_to_id)

BuildEdgeFaceMap(S, edge_hash_to_id, face_hash_to_id) ==
    EdgeFaceLoop(MapShapesAndAncestors(S), 1, <<>>, edge_hash_to_id, face_hash_to_id)

(* only the first of the two add() calls *)
AddNeighborsOneWay(face_id1, face_id2) == {<<face_id1, face_id2>>}

(* the two add() calls of _build_face_adjacency for face_id1, face_id2:   *)
(* a pair <<a, b>> puts b into face_neighbors[a]                           *)
AddNeighbors(face_id1, face_id2) == {<<face_id1, face_id2>>, <<face_id2, face_id1>>}

(* the double loop of _build_face_adjacency over one face list:            *)
(* "for i, face_id1 in enumerate(face_ids): for face_id2 in face_ids[i+1:]" *)
NeighborPairs(face_ids) ==
    UNION {AddNeighbors(face_ids[p[1]], face_ids[p[2]]) :
              p \in {q \in (1..Len(face_ids)) \X (1..Len(face_ids)) : q[1] < q[2]}}

(* face_neighbors, the defaultdict(set) of _build_face_adjacency *)
FaceNeighbors(efm) ==
    LET pairs == UNION {IF Len(efm[n].v) >= 2 THEN NeighborPairs(efm[n].v) ELSE {} :
                          n \in 1..Len(efm)}
    IN [a \in {p[1] : p \in pairs} |-> {p[2] : p \in {q \in pairs : q[1] = a}}]

(* each edge added under its first vertex only *)
VertexEdgesStartOnly(edges) ==
    LET pairs == {<<edges[n].vertices[1], edges[n].id>> :
                     n \in {k \in 1..Len(edges) : edges[k].vertices # <<>>}}
    IN [a \in {p[1] : p \in pairs} |-> {p[2] : p \in {q \in pairs : q[1] = a}}]

(* vertex_edges, the defaultdict(set) of _build_vertex_edge_map *)
VertexEdges(edges) ==
    LET pairs == UNION {{<<edges[n].vertices[i], edges[n].id>> : i \in 1..Len(edges[n].vertices)} :
                          n \in 1..Len(edges)}
    IN [a \in {p[1] : p \in pairs} |-> {p[2] : p \in {q \in pairs : q[1] = a}}]

(* list(x) of each set of a dictionary of sets: Python fixes no order *)
ListingsOf(sets) ==
    {o \in [DOMAIN sets -> UNION {Listings(sets[a]) : a \in DOMAIN sets}] :
        \A a \in DOMAIN sets : o[a] \in Listings(sets[a])}

(* "sorted(list(neighbors))" over every key *)
SortedLists(listing) == [a \in DOMAIN listing |-> PySorted(listing[a])]

(* adjacent_faces back-filled for edges with two or more faces only *)
UpdateAdjacentFacesInternalOnly(edge, efm) ==
    IF edge.id \in ItemKeys(efm) /\ Len(ItemGet(efm, edge.id, <<>>)) >= 2
    THEN [edge EXCEPT !.adjacent_faces = ItemGet(efm, edge.id, <<>>)]
    ELSE edge

(* one step of _update_edges_adjacent_faces *)
UpdateAdjacentFaces(edge, efm) ==
    IF edge.id \in ItemKeys(efm)
    THEN [edge EXCEPT !.adjacent_faces = ItemGet(efm, edge.id, <<>>)]
    ELSE edge

(* get_edge_adjacent_faces: self.edge_face_map.get(edge_id, []) *)
get_edge_adjacent_faces(efm, edge_id) == ItemGet(efm, edge_id, <<>>)

is_boundary_edge(efm, edge_id) == Len(get_edge_adjacent_faces(efm, edge_id)) = 1

(* "more than two faces" in place of "two or more" *)
is_internal_edge_strict(efm, edge_id) == Len(ItemGet(efm, edge_id, <<>>)) > 2

is_internal_edge(efm, edge_id) == Len(get_edge_adjacent_faces(efm, edge_id)) >= 2

get_potential_weld_edges(efm) ==
    LET two(item) == Len(item.v) = 2
        kept == SelectSeq(efm, two)
    IN [i \in 1..Len(kept) |-> kept[i].k]

(* ---------------- WeldDetector ---------------- *)
(* self.params *)
FilletMinAngle == 60
FilletMaxAngle == 120
FilletMinLength == 5
TShapeMinAngle == 85
TShapeMaxAngle == 95
TShapeMinLength == 5
ButtMinAngle == 150
ButtMaxAngle == 180
ButtMinLength == 5
LapMaxAngle == 30

(* a confidence c is kept as the integer 30 * c *)
ConfidenceUnit == 30

(* calculate_dihedral_angle returned None *)
NoAngle == -1

Abs(x) == IF x < 0 THEN -x ELSE x
Max(x, y) == IF x >= y THEN x ELSE y

(* the confidence without its floor of 0.5 *)
AngleConfidenceNoFloor(ideal, angle) == ConfidenceUnit - Abs(ideal - angle)

(* "confidence = max(0.5, 1.0 - angle_diff / 30)" *)
AngleConfidence(ideal, angle) == Max(15, ConfidenceUnit - Abs(ideal - angle))

(* the T-SHAPE rule tested before the FILLET rule *)
ClassifyTShapeFirst(angle, length, is_linear, is_planar) ==
    IF /\ TShapeMinAngle <= angle /\ angle <= TShapeMaxAngle
       /\ length >= TShapeMinLength
       /\ is_linear /\ is_planar
    THEN <<"t-shape", 27>>
    ELSE IF /\ FilletMinAngle <= angle /\ angle <= FilletMaxAngle
            /\ length >= FilletMinLength
            /\ is_linear /\ is_planar
    THEN <<"fillet", AngleConfidence(90, angle)>>
    ELSE IF /\ ButtMinAngle <= angle /\ angle <= ButtMaxAngle
            /\ length >= ButtMinLength
    THEN <<"butt", AngleConfidence(180, angle)>>
    ELSE IF angle <= LapMaxAngle
    THEN <<"lap", 18>>
    ELSE <<"unknown", 0>>

(* WeldDetector._classify_weld_type: <<weld_type, confidence>> *)
ClassifyWeldType(angle, length, is_linear, is_planar) ==
    IF /\ FilletMinAngle <= angle /\ angle <= FilletMaxAngle
       /\ length >= FilletMinLength
       /\ is_linear /\ is_planar
    THEN <<"fillet", AngleConfidence(90, angle)>>
    ELSE IF /\ TShapeMinAngle <= angle /\ angle <= TShapeMaxAngle
            /\ length >= TShapeMinLength
            /\ is_linear /\ is_planar
    THEN <<"t-shape", 27>>
    ELSE IF /\ ButtMinAngle <= angle /\ angle <= ButtMaxAngle
            /\ length >= ButtMinLength
    THEN <<"butt", AngleConfidence(180, angle)>>
    ELSE IF angle <= LapMaxAngle
    THEN <<"lap", 18>>
    ELSE <<"unknown", 0>>

(* WeldDetector._analyze_edge_for_weld on one (edge, face1, face2) of      *)
(* get_edges_with_two_faces: <<>> for None, else << WeldFeature >>.  The   *)
(* edge stands for id(edge).                                               *)
AnalyzeEdgeForWeld(c) ==
    LET is_planar == c.planar1 /\ c.planar2
        t == ClassifyWeldType(c.angle, c.length, c.is_linear, is_planar)
    IN IF c.angle = NoAngle THEN <<>>
       ELSE IF t[1] # "unknown"
       THEN << [weld_type |-> t[1], edge_id |-> c.edge, angle |-> c.angle,
                length |-> c.length, is_linear |-> c.is_linear,
                is_planar |-> is_planar, confidence |-> t[2]] >>
       ELSE <<>>

(* TopologyAnalyzer.get_edges_with_two_faces: the entries of the kernel's  *)
(* edge -> faces map whose face list has size 2                            *)
GetEdgesWithTwoFaces(occ) ==
    LET two(c) == c.nfaces = 2 IN SelectSeq(occ, two)

(* the loop of WeldDetector.detect_welds *)
DetectedWelds(occ) ==
    LET pairs == GetEdgesWithTwoFaces(occ)
    IN Flatten([i \in 1..Len(pairs) |-> AnalyzeEdgeForWeld(pairs[i])])

(* The shapes given to detect_welds: per edge of the kernel's map, the     *)
(* size of its face list and what GeometryCalculator computes for it       *)
(* (lengths in mm, angles in degrees).                                     *)
MaxWeldEdges == 2
WeldAngles == {NoAngle, 0, 30, 45, 60, 90, 120, 135, 150, 180}
WeldLengths == {4, 5, 10}

WeldEdges(e) ==
    {[edge |-> e, nfaces |-> 2, angle |-> a, length |-> l, is_linear |-> lin,
      planar1 |-> p1, planar2 |-> p2] :
        a \in WeldAngles, l \in WeldLengths, lin \in BOOLEAN, p1 \in BOOLEAN, p2 \in BOOLEAN}
    \cup
    {[edge |-> e, nfaces |-> n, angle |-> 90, length |-> 10, is_linear |-> TRUE,
      planar1 |-> TRUE, planar2 |-> TRUE] : n \in {1, 3}}

WeldShapes ==
    UNION {{s \in [1..n -> UNION {WeldEdges(10 + k) : k \in 1..n}] :
               \A k \in 1..n : s[k].edge = 10 + k} : n \in 0..MaxWeldEdges}

(* ---------------- CornerJointTemplate ---------------- *)
(* CornerJointParameters, the defaults *)
CornerMinAngle == 70
CornerMaxAngle == 110
CornerOptimalAngle == 90
CornerMinJointLength == 10

(* a corner confidence c is kept as the integer 1500 * c: the angle score  *)
(* is a multiple of 1/30 and the length score a multiple of 1/50           *)
CornerConfidenceUnit == 1500

Min(x, y) == IF x <= y THEN x ELSE y

(* the parameter objects a template is constructed with: the defaults,     *)
(* with each of the two type requirements switched on or off               *)
CornerJointParameters ==
    {[min_angle |-> CornerMinAngle, max_angle |-> CornerMaxAngle,
      optimal_angle |-> CornerOptimalAngle, min_joint_length |-> CornerMinJointLength,
      require_planar_faces |-> rp, require_linear_edge |-> rl] : rp \in BOOLEAN, rl \in BOOLEAN}

(* CornerJointTemplate._check_basic_topology *)
CheckLinearEdgeOnly(p, c) ==
    p.require_linear_edge => c.is_linear

CheckBasicTopology(p, c) ==
    /\ p.require_linear_edge => c.is_linear
    /\ p.require_planar_faces => (c.planar1 /\ c.planar2)

(* CornerJointTemplate._extract_geometry_features: <<>> for None, else     *)
(* << features >>                                                          *)
ExtractGeometryFeatures(p, c) ==
    IF c.angle = NoAngle THEN <<>>
    ELSE IF c.length < p.min_joint_length THEN <<>>
    ELSE IF ~(p.min_angle <= c.angle /\ c.angle <= p.max_angle) THEN <<>>
    ELSE << [length |-> c.length, angle |-> c.angle] >>

(* CornerJointTemplate._is_corner_joint *)
IsCornerJoint(p, features) ==
    p.min_angle <= features.angle /\ features.angle <= p.max_angle

(* the L_CORNER window without its end points *)
ClassifyCornerTypeOpenWindow(features) ==
    IF 85 < features.angle /\ features.angle < 95 THEN "l_corner"
    ELSE "v_corner"

(* CornerJointTemplate._classify_corner_type *)
ClassifyCornerType(features) ==
    IF 85 <= features.angle /\ features.angle <= 95 THEN "l_corner"
    ELSE IF features.angle < 85 THEN "v_corner"
    ELSE "v_corner"

(* the confidence with a length score that is not capped at 1 *)
CalculateConfidenceLengthUncapped(p, features) ==
    LET angle_score == Max(0, 30 - Abs(features.angle - p.optimal_angle))
    IN Min(CornerConfidenceUnit, Max(0, 35 * angle_score + 9 * features.length))

(* CornerJointTemplate._calculate_confidence, in units of 1/1500 *)
CalculateConfidence(p, features) ==
    LET angle_deviation == Abs(features.angle - p.optimal_angle)
        angle_score == Max(0, 30 - angle_deviation)          \* thirtieths
        length_score == Min(50, features.length)              \* fiftieths
        confidence == 35 * angle_score + 9 * length_score     \* 0.7 * a/30 + 0.3 * l/50
    IN Min(CornerConfidenceUnit, Max(0, confidence))

(* CornerJointTemplate._calculate_quality *)
CalculateQuality(features) ==
    LET angle_bonus == IF 85 <= features.angle /\ features.angle <= 95 THEN 20 ELSE 0
        length_bonus == IF features.length > 30 THEN 10 ELSE 0
    IN Min(100, 70 + angle_bonus + length_bonus)

(* CornerJointTemplate.match_edge on one (edge, face1, face2): <<>> for    *)
(* None, else << CornerJointFeature >>.  Confidence and quality are        *)
(* computed in step 5 only, after the three early returns.                 *)
MatchEdge(p, c) ==
    IF ~CheckBasicTopology(p, c) THEN <<>>
    ELSE LET features == ExtractGeometryFeatures(p, c)
         IN IF features = <<>> THEN <<>>
            ELSE IF ~IsCornerJoint(p, features[1]) THEN <<>>
            ELSE << [joint_type |-> ClassifyCornerType(features[1]),
                     edge |-> c.edge,
                     joint_angle |-> features[1].angle,
                     joint_length |-> features[1].length,
                     confidence |-> CalculateConfidence(p, features[1]),
                     quality_score |-> CalculateQuality(features[1])] >>

(* the loop of CornerJointTemplate.analyze_shape *)
DetectedJoints(p, occ) ==
    LET edge_face_pairs == GetEdgesWithTwoFaces(occ)
    IN Flatten([i \in 1..Len(edge_face_pairs) |-> MatchEdge(p, edge_face_pairs[i])])

(* The shapes given to analyze_shape, as for detect_welds *)
MaxCornerEdges == 2
CornerAngles == {NoAngle, 69, 70, 85, 90, 95, 96, 110, 111}
CornerLengths == {9, 10, 30, 31, 60}

CornerEdges(e) ==
    {[edge |-> e, nfaces |-> 2, angle |-> a, length |-> l, is_linear |-> lin,
      planar1 |-> p1, planar2 |-> p2] :
        a \in CornerAngles, l \in CornerLengths, lin \in BOOLEAN, p1 \in BOOLEAN, p2 \in BOOLEAN}
    \cup
    {[edge |-> e, nfaces |-> n, angle |-> 90, length |-> 31, is_linear |-> TRUE,
      planar1 |-> TRUE, planar2 |-> TRUE] : n \in {1, 3}}

CornerShapes ==
    UNION {{s \in [1..n -> UNION {CornerEdges(10 + k) : k \in 1..n}] :
               \A k \in 1..n : s[k].edge = 10 + k} : n \in 0..MaxCornerEdges}

(* ---------------- GeometryCalculator on a shape ---------------- *)
(* What the kernel's adaptors report for a shape: per face whether its     *)
(* surface is a plane and its unit normal at the mid-UV point (<<>> when   *)
(* IsNormalDefined() is false or the evaluation raises, else << n >> with  *)
(* n along an axis; a plane has a normal), per edge whether its curve is a *)
(* line and its length.                                                    *)
(* A unit normal n is kept as the integer vector 5 * n.                    *)
NormalUnit == 5

FaceGeometries ==
    {[planar |-> TRUE, normal |-> <<n>>] : n \in {<<5, 0, 0>>, <<0, 0, 5>>}}
    \cup {[planar |-> FALSE, normal |-> <<<<5, 0, 0>>>>], [planar |-> FALSE, normal |-> <<>>]}

(* Faces that may be oblique to each other: planes whose normals are at    *)
(* 0, 53.13 and 180 degrees to the x axis, and a curved face.              *)
ObliqueFaceGeometries ==
    {[planar |-> TRUE, normal |-> <<n>>] : n \in {<<5, 0, 0>>, <<3, 4, 0>>, <<-5, 0, 0>>}}
    \cup {[planar |-> FALSE, normal |-> <<<<3, 4, 0>>>>]}

(* a line of length 10 and a curve of length 2 *)
ObliqueEdgeGeometries == {[linear |-> TRUE, length |-> 10], [linear |-> FALSE, length |-> 2]}

EdgeGeometries == {[linear |-> lin, length |-> 10] : lin \in BOOLEAN}

NoGeometry == [face |-> <<>>, edge |-> <<>>]

(* What the kernel reports for an edge that may be degenerated: whether    *)
(* BRep_Tool.Curve gives a 3D curve, BRep_Tool.Degenerated and the length. *)
(* A regular line, a zero-length edge flagged degenerated that has a 3D    *)
(* curve, and the degenerated edge of an apex or pole, which has a curve   *)
(* on its surface only.                                                    *)
DegenerateEdgeGeometries ==
    {[linear |-> TRUE, length |-> 10, degenerated |-> FALSE, curve |-> TRUE],
     [linear |-> TRUE, length |-> 0, degenerated |-> TRUE, curve |-> TRUE],
     [linear |-> FALSE, length |-> 0, degenerated |-> TRUE, curve |-> FALSE]}

(* the 'length' and 'is_degenerated' entries EdgeExtractor writes into the *)
(* record of the edge with identity key e                                  *)
EdgeMeasures(g, e) ==
    [length |-> g.edge[e].length, is_degenerated |-> g.edge[e].degenerated]

Dot(a, b) == a[1] * b[1] + a[2] * b[2] + a[3] * b[3]

(* np.degrees(np.arccos(d)) for the dot product d, in units of            *)
(* 1 / NormalUnit^2, of two of the normals above, to the nearest degree    *)
(* (the angle of the normals <<5, 0, 0>> and <<3, 4, 0>> is 53.13)         *)
ArcCosDegrees(d) ==
    CASE d = 25 -> 0
      [] d = 15 -> 53
      [] d = 0 -> 90
      [] d = -15 -> 127
      [] d = -25 -> 180

(* GeometryCalculator.calculate_dihedral_angle *)
CalculateDihedralAngle(g, face1, face2) ==
    LET normal1 == g.face[face1].normal
        normal2 == g.face[face2].normal
    IN IF normal1 # <<>> /\ normal2 # <<>>
       THEN ArcCosDegrees(Max(-(NormalUnit * NormalUnit),
                              Min(NormalUnit * NormalUnit, Dot(normal1[1], normal2[1]))))
       ELSE NoAngle

(* The kernel's edge -> faces map of the shape with what                   *)
(* GeometryCalculator computes for each entry, face1 = faces.First() and   *)
(* face2 = faces.Last()                                                    *)
Candidates(S, g) ==
    LET occ == MapShapesAndAncestors(S)
    IN [i \in 1..Len(occ) |->
          LET face1 == occ[i].faces[1]
              face2 == occ[i].faces[Len(occ[i].faces)]
          IN [edge |-> occ[i].key, nfaces |-> Len(occ[i].faces),
              angle |-> CalculateDihedralAngle(g, face1, face2),
              length |-> g.edge[occ[i].key].length,
              is_linear |-> g.edge[occ[i].key].linear,
              planar1 |-> g.face[face1].planar, planar2 |-> g.face[face2].planar]]

(* ---------------- GeometrySerializer ---------------- *)
(* GeometrySerializer._calculate_face_angle; a face record's type and      *)
(* surface_data are those of the face its hash names                       *)
CalculateFaceAngle(g, face1, face2) ==
    IF g.face[face1.hash].planar /\ g.face[face2.hash].planar
    THEN ArcCosDegrees(Max(-(NormalUnit * NormalUnit),
                           Min(NormalUnit * NormalUnit,
                               Dot(g.face[face1.hash].normal[1], g.face[face2.hash].normal[1]))))
    ELSE 90

(* the t_joint range tested before the corner_joint range *)
SerializerClassifyTJointFirst(angle) ==
    IF 160 <= angle /\ angle <= 180 THEN "butt_joint"
    ELSE IF 85 <= angle /\ angle <= 95 THEN "t_joint"
    ELSE IF 80 <= angle /\ angle <= 100 THEN "corner_joint"
    ELSE IF angle < 30 THEN "lap_joint"
    ELSE "unknown"

(* GeometrySerializer._classify_weld_type *)
SerializerClassifyWeldType(angle) ==
    IF 160 <= angle /\ angle <= 180 THEN "butt_joint"
    ELSE IF 80 <= angle /\ angle <= 100 THEN "corner_joint"
    ELSE IF 85 <= angle /\ angle <= 95 THEN "t_joint"
    ELSE IF angle < 30 THEN "lap_joint"
    ELSE "unknown"

(* GeometrySerializer._get_topology_summary *)
GetTopologySummary(efm, adjacency) ==
    LET lists(sizes) == Cardinality({i \in 1..Len(efm) : Len(efm[i].v) \in sizes})
        most == Len(Flatten([i \in 1..Len(efm) |-> efm[i].v]))
    IN [boundary_edges_count |-> lists({1}),
        internal_edges_count |-> lists(2..most),
        potential_weld_edges_count |-> lists({2}),
        connected_faces_count |-> Cardinality(DOMAIN adjacency)]

(* GeometrySerializer._build_metadata.  Its two other entries, upload_time *)
(* and bounding_box, are a clock reading and coordinates of the shape.     *)
BuildMetadata(vertices, edges, faces, efm, adjacency) ==
    [filename |-> "unknown",
     statistics |-> [num_vertices |-> Len(vertices),
                     num_edges |-> Len(edges),
                     num_faces |-> Len(faces),
                     topology_summary |-> GetTopologySummary(efm, adjacency)]]

(* next((x for x in data if x['id'] == id), None): <<>> for None *)
FindById(data, id) ==
    LET found == {i \in 1..Len(data) : data[i].id = id}
    IN IF found = {} THEN <<>>
       ELSE << data[CHOOSE i \in found : \A j \in found : i <= j] >>

(* only the pairs whose angle matches a range are listed *)
ExtractClassifiedWeldSeams(efm, edges, faces, g) ==
    LET seam(item) ==
            LET edge_data == FindById(edges, item.k)
                face1 == IF Len(item.v) = 2 THEN FindById(faces, item.v[1]) ELSE <<>>
                face2 == IF Len(item.v) = 2 THEN FindById(faces, item.v[2]) ELSE <<>>
            IN IF Len(item.v) # 2 THEN <<>>
               ELSE IF edge_data = <<>> THEN <<>>
               ELSE IF face1 = <<>> \/ face2 = <<>> THEN <<>>
               ELSE LET angle == CalculateFaceAngle(g, face1[1], face2[1])
                        weld_type == SerializerClassifyWeldType(angle)
                    IN IF weld_type = "unknown" THEN <<>>
                       ELSE << [edge_id |-> item.k, edge_hash |-> edge_data[1].hash,
                                type |-> weld_type, confidence |-> 80, angle |-> angle,
                                adjacent_faces |-> item.v] >>
    IN Flatten([i \in 1..Len(efm) |-> seam(efm[i])])

(* GeometrySerializer._extract_potential_weld_seams; the confidence in     *)
(* hundredths                                                              *)
ExtractPotentialWeldSeams(efm, edges, faces, g) ==
    LET seam(item) ==
            LET edge_data == FindById(edges, item.k)
                face1 == IF Len(item.v) = 2 THEN FindById(faces, item.v[1]) ELSE <<>>
                face2 == IF Len(item.v) = 2 THEN FindById(faces, item.v[2]) ELSE <<>>
            IN IF Len(item.v) # 2 THEN <<>>
               ELSE IF edge_data = <<>> THEN <<>>
               ELSE IF face1 = <<>> \/ face2 = <<>> THEN <<>>
               ELSE LET angle == CalculateFaceAngle(g, face1[1], face2[1])
                        weld_type == SerializerClassifyWeldType(angle)
                    IN << [edge_id |-> item.k, edge_hash |-> edge_data[1].hash,
                           type |-> weld_type,
                           confidence |-> IF weld_type # "unknown" THEN 80 ELSE 30,
                           angle |-> angle,
                           adjacent_faces |-> item.v] >>
    IN Flatten([i \in 1..Len(efm) |-> seam(efm[i])])

(* ---------------- JSON ---------------- *)
(* A Python value that is used as a dictionary key, with its type: the int *)
(* 3 and the str "3" are different keys.                                   *)
PyInt(n) == [type |-> "int", repr |-> ToString(n)]
PyStr(t) == [type |-> "str", repr |-> t]

(* GeometrySerializer.serialize: the lists and the edge_face_map of the    *)
(* document that json.dumps is given; the keys of edge_face_map are the    *)
(* int edge ids AdjacencyBuilder stored                                    *)
Serialize(vertices, edges, faces, efm) ==
    [vertices |-> vertices, edges |-> edges, faces |-> faces,
     edge_face_map |-> [i \in 1..Len(efm) |-> [k |-> PyInt(efm[i].k), v |-> efm[i].v]]]

(* json.dumps of a dictionary: a JSON object, whose member names are       *)
(* strings; a key that is an int is written as its decimal text            *)
JsonDumpsDict(items) ==
    [i \in 1..Len(items) |-> [name |-> items[i].k.repr, value |-> items[i].v]]

(* json.loads of a JSON object: a dictionary with str keys *)
JsonLoadsObject(members) ==
    [i \in 1..Len(members) |-> [k |-> PyStr(members[i].name), v |-> members[i].value]]

(* GeometrySerializer.serialize_to_json_string: the JSON text, as its      *)
(* arrays and objects.  A list of records of ints, strings and lists is    *)
(* written as an array of objects with the same members.                   *)
SerializeToJsonString(vertices, edges, faces, efm) ==
    LET data == Serialize(vertices, edges, faces, efm)
    IN [vertices |-> data.vertices, edges |-> data.edges, faces |-> data.faces,
        edge_face_map |-> JsonDumpsDict(data.edge_face_map)]

(* json.loads of that text *)
JsonLoads(text) ==
    [vertices |-> text.vertices, edges |-> text.edges, faces |-> text.faces,
     edge_face_map |-> JsonLoadsObject(text.edge_face_map)]

(* ---------------- the pipeline ---------------- *)
VARIABLES
    shape,            \* the TopoDS_Shape handed to GeometryExtractor
    geom,             \* what the kernel's adaptors report for its faces and edges
    pc,               \* the step of extract_all that was last completed
    run,              \* 1: first extraction of the shape, 2: its re-run
    vertices_data, vertex_id_map,
    edges_data, edge_id_map,
    faces_data, face_id_map,
    edge_face_map, face_adjacency, vertex_edge_map,
    first,            \* the result of the first run, kept by the caller
    wshape,           \* the shape handed to WeldDetector.detect_welds
    wpc,              \* "new": WeldDetector constructed, "detected": detect_welds returned
    detected_welds,   \* WeldDetector.detected_welds
    params,           \* CornerJointTemplate.params
    cpc,              \* "new": template constructed, "analyzed": analyze_shape returned
    detected_joints,  \* CornerJointTemplate.detected_joints
    target,           \* the class a caller constructs on the shape
    raised,           \* the exception that reached the caller
    session,          \* SessionService._current_model
    last_call,        \* the last call of SessionService, its arguments and the shape it replaced
    upload,           \* the upload request being handled
    heap,             \* the list objects of the detectors' results
    welds_ref,        \* the list object WeldDetector.detected_welds is bound to
    joints_ref,       \* the list object CornerJointTemplate.detected_joints is bound to
    returned,         \* what detect_welds and analyze_shape returned to their caller
    probe             \* a direct call of the two angle classifiers

xvars == <<shape, geom, pc, run, vertices_data, vertex_id_map, edges_data, edge_id_map,
           faces_data, face_id_map, edge_face_map, face_adjacency, vertex_edge_map, first>>
wvars == <<wshape, wpc, detected_welds>>
cvars == <<params, cpc, detected_joints>>
nvars == <<target, raised>>
svars == <<session, last_call, upload>>
hvars == <<heap, welds_ref, joints_ref, returned>>
avars == <<nvars, svars, hvars, probe>>
vars == <<xvars, wvars, cvars, avars>>

NoResult == [run |-> 0]

(* what a run assigns: the three id maps and the three adjacency maps *)
Result ==
    [run |-> 1,
     vertex_id_map |-> vertex_id_map, edge_id_map |-> edge_id_map, face_id_map |-> face_id_map,
     edge_face_map |-> edge_face_map, face_adjacency |-> face_adjacency,
     vertex_edge_map |-> vertex_edge_map]

NoWeldRun == wshape = <<>> /\ wpc = "none" /\ detected_welds = <<>>

(* CornerJointParameters() *)
DefaultParameters ==
    [min_angle |-> CornerMinAngle, max_angle |-> CornerMaxAngle,
     optimal_angle |-> CornerOptimalAngle, min_joint_length |-> CornerMinJointLength,
     require_planar_faces |-> TRUE, require_linear_edge |-> TRUE]

NoCornerRun == params = DefaultParameters /\ cpc = "none" /\ detected_joints = <<>>

(* Python's None, and the empty dictionary {} *)
None == "None"
EmptyMap == "{}"

(* SessionService._current_model as the class body creates it *)
EmptySession ==
    [shape |-> None, geometry_data |-> None, vertices_map |-> EmptyMap,
     edges_map |-> EmptyMap, faces_map |-> EmptyMap, mesh |-> None, filename |-> None]

NoConstruction == target = "none" /\ raised = "none"

NoSession == session = EmptySession /\ last_call = [op |-> "none"] /\ upload = [step |-> "idle"]

NoHeap == heap = <<>> /\ welds_ref = 0 /\ joints_ref = 0 /\ returned = <<>>

NoProbe == probe = [fn |-> "none"]

NoCalls == NoConstruction /\ NoSession /\ NoHeap /\ NoProbe

Init ==
    /\ NoWeldRun
    /\ NoCornerRun
    /\ NoCalls
    /\ \E fs \in FaceVisits : \E w \in Wires(fs) : \E ev \in EdgeVertices(fs, w) :
       \E nc \in SUBSET EdgesIn(fs, w) : \E ns \in SUBSET Range(fs) :
          shape = [faces |-> fs, wire |-> w, everts |-> ev, noCurve |-> nc, noSurface |-> ns, holes |-> NoHoles]
    /\ geom = NoGeometry
    /\ pc = "new"
    /\ run = 1
    /\ vertices_data = <<>> /\ vertex_id_map = EmptyDict
    /\ edges_data = <<>> /\ edge_id_map = EmptyDict
    /\ faces_data = <<>> /\ face_id_map = EmptyDict
    /\ edge_face_map = <<>> /\ face_adjacency = EmptyDict /\ vertex_edge_map = EmptyDict
    /\ first = NoResult

(* extract_all, step 1 *)
ExtractVertices ==
    /\ pc = "new"
    /\ LET st == VertexExtract(shape)
       IN vertices_data' = st.data /\ vertex_id_map' = st.id_map
    /\ pc' = "vertices"
    /\ UNCHANGED <<shape, geom, run, edges_data, edge_id_map, faces_data, face_id_map,
                   edge_face_map, face_adjacency, vertex_edge_map, first, wvars, cvars, avars>>

(* extract_all, step 2 *)
ExtractEdges ==
    /\ pc = "vertices"
    /\ LET st == EdgeExtract(shape, vertex_id_map)
       IN edges_data' = st.data /\ edge_id_map' = st.id_map
    /\ pc' = "edges"
    /\ UNCHANGED <<shape, geom, run, vertices_data, vertex_id_map, faces_data, face_id_map,
                   edge_face_map, face_adjacency, vertex_edge_map, first, wvars, cvars, avars>>

(* extract_all, step 3 *)
ExtractFaces ==
    /\ pc = "edges"
    /\ LET st == FaceExtract(shape, edge_id_map)
       IN faces_data' = st.data /\ face_id_map' = st.id_map
    /\ pc' = "faces"
    /\ UNCHANGED <<shape, geom, run, vertices_data, vertex_id_map, edges_data, edge_id_map,
                   edge_face_map, face_adjacency, vertex_edge_map, first, wvars, cvars, avars>>

(* extract_all, step 4: AdjacencyBuilder(...).build().  Step 5 builds the   *)
(* output document from these lists and maps and assigns none of them.     *)
Build ==
    /\ pc = "faces"
    /\ LET efm == BuildEdgeFaceMap(shape, HashToId(edges_data), HashToId(faces_data))
       IN /\ edge_face_map' = efm
          /\ \E listing \in ListingsOf(FaceNeighbors(efm)) :
                face_adjacency' = SortedLists(listing)
          /\ \E listing \in ListingsOf(VertexEdges(edges_data)) :
                vertex_edge_map' = SortedLists(listing)
          /\ edges_data' = [n \in 1..Len(edges_data) |-> UpdateAdjacentFaces(edges_data[n], efm)]
    /\ pc' = "built"
    /\ UNCHANGED <<shape, geom, run, vertices_data, vertex_id_map, edge_id_map,
                   faces_data, face_id_map, first, wvars, cvars, avars>>

(* the caller keeps the result and extracts the unchanged shape again with *)
(* a new GeometryExtractor                                                 *)
Rerun ==
    /\ pc = "built" /\ run = 1
    /\ first' = Result
    /\ run' = 2
    /\ pc' = "new"
    /\ vertices_data' = <<>> /\ vertex_id_map' = EmptyDict
    /\ edges_data' = <<>> /\ edge_id_map' = EmptyDict
    /\ faces_data' = <<>> /\ face_id_map' = EmptyDict
    /\ edge_face_map' = <<>> /\ face_adjacency' = EmptyDict /\ vertex_edge_map' = EmptyDict
    /\ UNCHANGED <<shape, geom, wvars, cvars, avars>>

Next == ExtractVertices \/ ExtractEdges \/ ExtractFaces \/ Build \/ Rerun

Spec == Init /\ [][Next]_vars

(* ---------------- the weld detector alone ---------------- *)
EmptyShape ==
    [faces |-> <<>>, wire |-> [f \in FaceKeys |-> <<>>], everts |-> [e \in EdgeKeys |-> <<>>],
     noCurve |-> {}, noSurface |-> {}, holes |-> NoHoles]

NoExtraction ==
    /\ NoCalls
    /\ shape = EmptyShape /\ geom = NoGeometry /\ pc = "none" /\ run = 1
    /\ vertices_data = <<>> /\ vertex_id_map = EmptyDict
    /\ edges_data = <<>> /\ edge_id_map = EmptyDict
    /\ faces_data = <<>> /\ face_id_map = EmptyDict
    /\ edge_face_map = <<>> /\ face_adjacency = EmptyDict /\ vertex_edge_map = EmptyDict
    /\ first = NoResult

WeldInit ==
    /\ NoExtraction
    /\ NoCornerRun
    /\ wshape \in WeldShapes
    /\ wpc = "new"
    /\ detected_welds = <<>>

(* WeldDetector.detect_welds(shape) *)
DetectWelds ==
    /\ wpc = "new"
    /\ detected_welds' = DetectedWelds(wshape)
    /\ wpc' = "detected"
    /\ UNCHANGED <<wshape, xvars, cvars, avars>>

WeldNext == DetectWelds

WeldSpec == WeldInit /\ [][WeldNext]_vars

(* ---------------- the weld detector over every whole angle ---------------- *)
(* two candidates that pass every type and length test, at any two whole   *)
(* angles of calculate_dihedral_angle's range [0, 180]                     *)
SweepMaxAngle == 180

SweepEdge(e, a) ==
    [edge |-> e, nfaces |-> 2, angle |-> a, length |-> 10, is_linear |-> TRUE,
     planar1 |-> TRUE, planar2 |-> TRUE]

SweepShapes ==
    {<<SweepEdge(11, a), SweepEdge(12, b)>> : a \in 0..SweepMaxAngle, b \in 0..SweepMaxAngle}

SweepInit ==
    /\ NoExtraction
    /\ NoCornerRun
    /\ wshape \in SweepShapes
    /\ wpc = "new"
    /\ detected_welds = <<>>

SweepSpec == SweepInit /\ [][WeldNext]_vars

(* ---------------- the corner-joint template alone ---------------- *)
CornerInit ==
    /\ NoExtraction
    /\ wshape \in CornerShapes /\ wpc = "none" /\ detected_welds = <<>>
    /\ params \in CornerJointParameters
    /\ cpc = "new"
    /\ detected_joints = <<>>

(* CornerJointTemplate.analyze_shape(shape, topology_analyzer, geometry_calc) *)
AnalyzeShape ==
    /\ cpc = "new"
    /\ detected_joints' = DetectedJoints(params, wshape)
    /\ cpc' = "analyzed"
    /\ UNCHANGED <<params, wshape, wpc, detected_welds, xvars, avars>>

CornerNext == AnalyzeShape

CornerSpec == CornerInit /\ [][CornerNext]_vars

(* ---------------- extraction and both detectors on one shape ---------------- *)
(* A shape of at most MaxSolidFaceVisits face occurrences, every edge with *)
(* a curve and every face with a surface, and its geometry; wshape is what *)
(* the detectors' TopologyAnalyzer and GeometryCalculator find in it.      *)
MaxSolidFaceVisits == 2

SolidInit ==
    /\ \E fs \in FaceVisits : \E w \in Wires(fs) : \E ev \in EdgeVertices(fs, w) :
       \E fg \in [Range(fs) -> FaceGeometries] : \E eg \in [EdgesIn(fs, w) -> EdgeGeometries] :
          /\ Len(fs) <= MaxSolidFaceVisits
          /\ shape = [faces |-> fs, wire |-> w, everts |-> ev, noCurve |-> {}, noSurface |-> {}, holes |-> NoHoles]
          /\ geom = [face |-> fg, edge |-> eg]
          /\ wshape = Candidates(shape, geom)
    /\ pc = "new"
    /\ run = 1
    /\ vertices_data = <<>> /\ vertex_id_map = EmptyDict
    /\ edges_data = <<>> /\ edge_id_map = EmptyDict
    /\ faces_data = <<>> /\ face_id_map = EmptyDict
    /\ edge_face_map = <<>> /\ face_adjacency = EmptyDict /\ vertex_edge_map = EmptyDict
    /\ first = NoResult
    /\ wpc = "new" /\ detected_welds = <<>>
    /\ params = DefaultParameters /\ cpc = "new" /\ detected_joints = <<>>
    /\ NoCalls

(* the caller extracts the shape, then hands it to the two detectors *)
SolidNext ==
    \/ ExtractVertices
    \/ ExtractEdges
    \/ ExtractFaces
    \/ Build
    \/ (pc = "built" /\ DetectWelds)
    \/ (pc = "built" /\ AnalyzeShape)

SolidSpec == SolidInit /\ [][SolidNext]_vars

(* ---------------- extraction of a shape with oblique faces ---------------- *)
(* extract_all on a shape whose faces may be oblique to each other and     *)
(* whose edges may be short curves                                         *)
ObliqueInit ==
    /\ NoWeldRun
    /\ NoCornerRun
    /\ NoCalls
    /\ \E fs \in FaceVisits : \E w \in Wires(fs) : \E ev \in EdgeVertices(fs, w) :
       \E fg \in [Range(fs) -> ObliqueFaceGeometries] :
       \E eg \in [EdgesIn(fs, w) -> ObliqueEdgeGeometries] :
          /\ Len(fs) <= MaxSolidFaceVisits
          /\ shape = [faces |-> fs, wire |-> w, everts |-> ev, noCurve |-> {}, noSurface |-> {}, holes |-> NoHoles]
          /\ geom = [face |-> fg, edge |-> eg]
    /\ pc = "new"
    /\ run = 1
    /\ vertices_data = <<>> /\ vertex_id_map = EmptyDict
    /\ edges_data = <<>> /\ edge_id_map = EmptyDict
    /\ faces_data = <<>> /\ face_id_map = EmptyDict
    /\ edge_face_map = <<>> /\ face_adjacency = EmptyDict /\ vertex_edge_map = EmptyDict
    /\ first = NoResult

ObliqueNext == ExtractVertices \/ ExtractEdges \/ ExtractFaces \/ Build

ObliqueSpec == ObliqueInit /\ [][ObliqueNext]_vars

(* ---------------- extraction of a shape with holes ---------------- *)
(* A face may have wires other than its outer wire, and any edge may lack  *)
(* a 3D curve.                                                             *)
MaxHoles == 1

HoleWires == SeqsUpTo(EdgeKeys, MaxWire) \ {<<>>}

(* two vertex occurrences for each edge of the sequence es of edges *)
EdgeVerticesOf(es) ==
    {ev \in [EdgeKeys -> SeqsUpTo(VertexKeys, 2)] :
        /\ \A e \in EdgeKeys : IF e \in Range(es) THEN Len(ev[e]) = 2 ELSE ev[e] = <<>>
        /\ InVisitOrder(Flatten([i \in 1..Len(es) |-> ev[es[i]]]), <<1, 2>>)}

HoleInit ==
    /\ NoWeldRun
    /\ NoCornerRun
    /\ NoCalls
    /\ \E fs \in FaceVisits : \E w \in Wires(fs) :
       \E h \in [Range(fs) -> SeqsUpTo(HoleWires, MaxHoles)] :
          LET es == FirstOccurrences(
                        Flatten([i \in 1..Len(fs) |-> w[fs[i]] \o Flatten(h[fs[i]])]))
          IN \E ev \in EdgeVerticesOf(es) : \E nc \in SUBSET Range(es) :
                /\ Len(fs) <= MaxSolidFaceVisits
                /\ shape = [faces |-> fs, wire |-> w, everts |-> ev, noCurve |-> nc,
                            noSurface |-> {}, holes |-> h]
    /\ geom = NoGeometry
    /\ pc = "new"
    /\ run = 1
    /\ vertices_data = <<>> /\ vertex_id_map = EmptyDict
    /\ edges_data = <<>> /\ edge_id_map = EmptyDict
    /\ faces_data = <<>> /\ face_id_map = EmptyDict
    /\ edge_face_map = <<>> /\ face_adjacency = EmptyDict /\ vertex_edge_map = EmptyDict
    /\ first = NoResult

HoleNext == ExtractVertices \/ ExtractEdges \/ ExtractFaces \/ Build

HoleSpec == HoleInit /\ [][HoleNext]_vars

(* ---------------- shapes with degenerated edges ---------------- *)
(* As above, with edges that may be degenerated; an edge without a 3D      *)
(* curve is one EdgeExtractor skips.                                       *)
DegenerateInit ==
    /\ \E fs \in FaceVisits : \E w \in Wires(fs) : \E ev \in EdgeVertices(fs, w) :
       \E fg \in [Range(fs) -> FaceGeometries] :
       \E eg \in [EdgesIn(fs, w) -> DegenerateEdgeGeometries] :
          /\ Len(fs) <= MaxSolidFaceVisits
          /\ shape = [faces |-> fs, wire |-> w, everts |-> ev,
                      noCurve |-> {e \in EdgesIn(fs, w) : ~eg[e].curve}, noSurface |-> {}, holes |-> NoHoles]
          /\ geom = [face |-> fg, edge |-> eg]
          /\ wshape = Candidates(shape, geom)
    /\ pc = "new"
    /\ run = 1
    /\ vertices_data = <<>> /\ vertex_id_map = EmptyDict
    /\ edges_data = <<>> /\ edge_id_map = EmptyDict
    /\ faces_data = <<>> /\ face_id_map = EmptyDict
    /\ edge_face_map = <<>> /\ face_adjacency = EmptyDict /\ vertex_edge_map = EmptyDict
    /\ first = NoResult
    /\ wpc = "new" /\ detected_welds = <<>>
    /\ params = DefaultParameters /\ cpc = "new" /\ detected_joints = <<>>
    /\ NoCalls

DegenerateSpec == DegenerateInit /\ [][SolidNext]_vars

(* ---------------- construction on a null shape ---------------- *)
(* TopoDS_Shape(): a shape without a TShape, in which the explorers find   *)
(* nothing                                                                 *)
NullShape ==
    [faces |-> <<>>, wire |-> [f \in FaceKeys |-> <<>>], everts |-> [e \in EdgeKeys |-> <<>>],
     noCurve |-> {}, noSurface |-> {}, holes |-> NoHoles, null |-> TRUE]

(* shape.IsNull() *)
IsNull(S) == S = NullShape

(* a constructor without the test *)
NoNullCheck(S) == FALSE

(* "if shape.IsNull(): raise ValueError(...)", the first statement of      *)
(* GeometryExtractor.__init__, of the three extractors' __init__ and of    *)
(* AdjacencyBuilder.__init__                                               *)
NullCheck(S) == IsNull(S)

Targets ==
    {"GeometryExtractor", "VertexExtractor", "EdgeExtractor", "FaceExtractor", "AdjacencyBuilder"}

(* a caller holds a shape, null or with up to two face occurrences, and    *)
(* is about to construct one of the classes on it                          *)
NullInit ==
    /\ NoWeldRun
    /\ NoCornerRun
    /\ NoSession /\ NoHeap /\ NoProbe
    /\ \/ shape = NullShape
       \/ \E fs \in FaceVisits : \E w \in Wires(fs) : \E ev \in EdgeVertices(fs, w) :
             /\ Len(fs) <= MaxSolidFaceVisits
             /\ shape = [faces |-> fs, wire |-> w, everts |-> ev, noCurve |-> {}, noSurface |-> {}, holes |-> NoHoles]
    /\ geom = NoGeometry
    /\ target \in Targets
    /\ raised = "none"
    /\ pc = "none"
    /\ run = 1
    /\ vertices_data = <<>> /\ vertex_id_map = EmptyDict
    /\ edges_data = <<>> /\ edge_id_map = EmptyDict
    /\ faces_data = <<>> /\ face_id_map = EmptyDict
    /\ edge_face_map = <<>> /\ face_adjacency = EmptyDict /\ vertex_edge_map = EmptyDict
    /\ first = NoResult

(* target(shape, ...): __init__ raises, or the object exists; a            *)
(* GeometryExtractor is then ready for extract_all                         *)
Construct ==
    /\ pc = "none" /\ raised = "none" /\ target \in Targets
    /\ IF NullCheck(shape)
       THEN raised' = "ValueError" /\ pc' = pc
       ELSE raised' = raised /\ pc' = IF target = "GeometryExtractor" THEN "new" ELSE "constructed"
    /\ UNCHANGED <<shape, geom, run, vertices_data, vertex_id_map, edges_data, edge_id_map,
                   faces_data, face_id_map, edge_face_map, face_adjacency, vertex_edge_map,
                   first, wvars, cvars, target, svars, hvars, probe>>

NullNext == Construct \/ ExtractVertices \/ ExtractEdges \/ ExtractFaces \/ Build

NullSpec == NullInit /\ [][NullNext]_vars

(* ---------------- SessionService and the upload route ---------------- *)
Slots == {"shape", "geometry_data", "edges_map", "faces_map", "vertices_map", "mesh", "filename"}

(* the models a caller stores: every value that belongs to a model is      *)
(* named after it                                                          *)
Models == {"a", "b"}

(* the arguments of a save_model call for model m: the slots in given get  *)
(* the model's value, the others are left at their default None            *)
SaveModelArgs(m, given) == [slot \in Slots |-> IF slot \in given THEN m ELSE None]

(* "x or {}" *)
OrEmpty(x) == IF x = None \/ x = EmptyMap THEN EmptyMap ELSE x

(* save_model without the assignment of 'mesh' *)
SaveModelKeepingMesh(sess, a) ==
    [sess EXCEPT !.shape = a.shape,
                 !.geometry_data = a.geometry_data,
                 !.edges_map = OrEmpty(a.edges_map),
                 !.faces_map = OrEmpty(a.faces_map),
                 !.vertices_map = OrEmpty(a.vertices_map),
                 !.filename = a.filename]

(* SessionService.save_model *)
SaveModel(sess, a) ==
    [sess EXCEPT !.shape = a.shape,
                 !.geometry_data = a.geometry_data,
                 !.edges_map = OrEmpty(a.edges_map),
                 !.faces_map = OrEmpty(a.faces_map),
                 !.vertices_map = OrEmpty(a.vertices_map),
                 !.mesh = a.mesh,
                 !.filename = a.filename]

(* SessionService.clear_model *)
ClearModel(sess) ==
    [sess EXCEPT !.shape = None,
                 !.geometry_data = None,
                 !.vertices_map = EmptyMap,
                 !.edges_map = EmptyMap,
                 !.faces_map = EmptyMap,
                 !.mesh = None,
                 !.filename = None]

(* SessionService.has_model *)
HasModel(sess) == sess.shape # None

(* an except clause that also clears the session *)
ClearOnException(sess) == ClearModel(sess)

(* the except clauses of upload_file: an error response is returned *)
HandleException(sess) == sess

(* the HTTP status of the except clause that catches the exception *)
StatusOf(exception) ==
    IF exception = "FileNotFoundError" THEN 404
    ELSE IF exception = "ValueError" THEN 400
    ELSE 500

(* what ModelService.process_step_file returns for the file of model m,    *)
(* as upload_file passes it to save_model: result.get('mesh') is None      *)
UploadArgs(m) ==
    [slot \in Slots |-> IF slot = "mesh" THEN None ELSE m]

NoRequest == upload.step \in {"idle", "done"}

SessionInit ==
    /\ NoWeldRun
    /\ NoCornerRun
    /\ NoConstruction /\ NoHeap /\ NoProbe
    /\ shape = EmptyShape /\ geom = NoGeometry /\ pc = "none" /\ run = 1
    /\ vertices_data = <<>> /\ vertex_id_map = EmptyDict
    /\ edges_data = <<>> /\ edge_id_map = EmptyDict
    /\ faces_data = <<>> /\ face_id_map = EmptyDict
    /\ edge_face_map = <<>> /\ face_adjacency = EmptyDict /\ vertex_edge_map = EmptyDict
    /\ first = NoResult
    /\ NoSession

(* a direct call SessionService.save_model(...) *)
SaveModelCall ==
    /\ NoRequest
    /\ \E m \in Models : \E given \in SUBSET Slots :
          /\ session' = SaveModel(session, SaveModelArgs(m, given))
          /\ last_call' = [op |-> "save_model", args |-> SaveModelArgs(m, given),
                           replaced |-> session.shape]
    /\ upload' = [step |-> "idle"]
    /\ UNCHANGED <<xvars, wvars, cvars, nvars, hvars, probe>>

(* SessionService.clear_model(), the /api/model/clear route *)
ClearModelCall ==
    /\ NoRequest
    /\ session' = ClearModel(session)
    /\ last_call' = [op |-> "clear_model", replaced |-> session.shape]
    /\ upload' = [step |-> "idle"]
    /\ UNCHANGED <<xvars, wvars, cvars, nvars, hvars, probe>>

(* upload_file: validate_file(request); an error is answered with 400 *)
UploadBegin ==
    /\ NoRequest
    /\ \E m \in Models :
          \/ upload' = [step |-> "validated", file |-> m, before |-> session]
          \/ upload' = [step |-> "done", file |-> m, before |-> session,
                        failed_at |-> "validate_file", status |-> 400]
    /\ UNCHANGED <<session, last_call, xvars, wvars, cvars, nvars, hvars, probe>>

(* a step of the try block raises: the matching except clause runs, then   *)
(* the finally clause                                                      *)
Fails(at, exception) ==
    /\ session' = HandleException(session)
    /\ upload' = [step |-> "done", file |-> upload.file, before |-> upload.before,
                  failed_at |-> at, status |-> StatusOf(exception)]

(* FileService.save_upload(file) *)
SaveUpload ==
    /\ upload.step = "validated"
    /\ \/ upload' = [upload EXCEPT !.step = "saved"] /\ session' = session
       \/ Fails("save_upload", "Exception")
    /\ UNCHANGED <<last_call, xvars, wvars, cvars, nvars, hvars, probe>>

(* process_step_file: ModelService.load_step_file(filepath) *)
LoadStepFile ==
    /\ upload.step = "saved"
    /\ \/ upload' = [upload EXCEPT !.step = "loaded"] /\ session' = session
       \/ \E x \in {"FileNotFoundError", "ValueError", "Exception"} : Fails("load_step_file", x)
    /\ UNCHANGED <<last_call, xvars, wvars, cvars, nvars, hvars, probe>>

(* process_step_file: ModelService.extract_geometry(shape, filename) *)
ExtractGeometry ==
    /\ upload.step = "loaded"
    /\ \/ upload' = [upload EXCEPT !.step = "extracted"] /\ session' = session
       \/ \E x \in {"ValueError", "Exception"} : Fails("extract_geometry", x)
    /\ UNCHANGED <<last_call, xvars, wvars, cvars, nvars, hvars, probe>>

(* upload_file: SessionService.save_model(...), then the response *)
UploadSaveModel ==
    /\ upload.step = "extracted"
    /\ session' = SaveModel(session, UploadArgs(upload.file))
    /\ last_call' = [op |-> "save_model", args |-> UploadArgs(upload.file),
                     replaced |-> session.shape]
    /\ upload' = [step |-> "done", file |-> upload.file, before |-> upload.before,
                  failed_at |-> "nothing", status |-> 200]
    /\ UNCHANGED <<xvars, wvars, cvars, nvars, hvars, probe>>

SessionNext ==
    \/ SaveModelCall
    \/ ClearModelCall
    \/ UploadBegin
    \/ SaveUpload
    \/ LoadStepFile
    \/ ExtractGeometry
    \/ UploadSaveModel

SessionSpec == SessionInit /\ [][SessionNext]_vars

(* ---------------- the two angle classifiers ---------------- *)
(* The arguments of one call: an angle in whole degrees, a length below,   *)
(* at and above the minimum lengths, and the two flags.                    *)
ClassifyAngles == 0..180
ClassifyLengths == {0, 4, 5, 10}

ClassifyInit ==
    /\ NoWeldRun
    /\ NoCornerRun
    /\ NoConstruction /\ NoSession /\ NoHeap
    /\ shape = EmptyShape /\ geom = NoGeometry /\ pc = "none" /\ run = 1
    /\ vertices_data = <<>> /\ vertex_id_map = EmptyDict
    /\ edges_data = <<>> /\ edge_id_map = EmptyDict
    /\ faces_data = <<>> /\ face_id_map = EmptyDict
    /\ edge_face_map = <<>> /\ face_adjacency = EmptyDict /\ vertex_edge_map = EmptyDict
    /\ first = NoResult
    /\ \E angle \in ClassifyAngles : \E length \in ClassifyLengths :
       \E is_linear \in BOOLEAN : \E is_planar \in BOOLEAN :
          probe = [fn |-> "args", angle |-> angle, length |-> length,
                   is_linear |-> is_linear, is_planar |-> is_planar, result |-> <<>>]

(* a call WeldDetector._classify_weld_type(angle, length, is_linear,       *)
(* is_planar)                                                              *)
WeldClassifyCall ==
    /\ probe.fn = "args"
    /\ probe' = [probe EXCEPT !.fn = "WeldDetector._classify_weld_type",
                              !.result = ClassifyWeldType(probe.angle, probe.length,
                                                          probe.is_linear, probe.is_planar)]
    /\ UNCHANGED <<xvars, wvars, cvars, nvars, svars, hvars>>

(* a call GeometrySerializer._classify_weld_type(angle) *)
SerializerClassifyCall ==
    /\ probe.fn = "args"
    /\ probe' = [probe EXCEPT !.fn = "GeometrySerializer._classify_weld_type",
                              !.result = <<SerializerClassifyWeldType(probe.angle)>>]
    /\ UNCHANGED <<xvars, wvars, cvars, nvars, svars, hvars>>

ClassifyNext == WeldClassifyCall \/ SerializerClassifyCall

ClassifySpec == ClassifyInit /\ [][ClassifyNext]_vars

(* ---------------- a detector run again ---------------- *)
(* The list objects of the program are the entries of heap; welds_ref and  *)
(* joints_ref are the lists that self.detected_welds and                   *)
(* self.detected_joints are bound to, and returned holds, for every call   *)
(* made, the engine, the shape it was given and the list it returned.      *)
MaxEngineCalls == 3

(* no edge, one edge between perpendicular planes, and that edge with a    *)
(* second one between opposite planes                                      *)
RerunShapes == {<<>>, <<SweepEdge(11, 90)>>, <<SweepEdge(11, 90), SweepEdge(12, 180)>>}

(* "self.detected_welds = []" and "self.detected_joints = []" of the two   *)
(* constructors                                                            *)
RerunInit ==
    /\ NoConstruction /\ NoSession /\ NoProbe
    /\ shape = EmptyShape /\ geom = NoGeometry /\ pc = "none" /\ run = 1
    /\ vertices_data = <<>> /\ vertex_id_map = EmptyDict
    /\ edges_data = <<>> /\ edge_id_map = EmptyDict
    /\ faces_data = <<>> /\ face_id_map = EmptyDict
    /\ edge_face_map = <<>> /\ face_adjacency = EmptyDict /\ vertex_edge_map = EmptyDict
    /\ first = NoResult
    /\ wshape = <<>>
    /\ wpc = "new" /\ detected_welds = <<>>
    /\ params = DefaultParameters /\ cpc = "new" /\ detected_joints = <<>>
    /\ heap = << <<>>, <<>> >> /\ welds_ref = 1 /\ joints_ref = 2
    /\ returned = <<>>

(* WeldDetector.detect_welds(shape): "self.detected_welds = []" binds a    *)
(* new list, which is filled and returned                                  *)
DetectWeldsAgain ==
    /\ Len(returned) < MaxEngineCalls
    /\ \E s \in RerunShapes :
          /\ wshape' = s
          /\ heap' = Append(heap, DetectedWelds(s))
          /\ welds_ref' = Len(heap) + 1
          /\ detected_welds' = DetectedWelds(s)
          /\ returned' = Append(returned, [engine |-> "WeldDetector", shape |-> s,
                                            list |-> Len(heap) + 1])
    /\ wpc' = "detected"
    /\ UNCHANGED <<xvars, cvars, nvars, svars, probe, joints_ref>>

(* CornerJointTemplate.analyze_shape(shape, ...):                          *)
(* "self.detected_joints.clear()" empties the list the template holds,     *)
(* which is then filled and returned                                       *)
AnalyzeShapeAgain ==
    /\ Len(returned) < MaxEngineCalls
    /\ \E s \in RerunShapes :
          /\ wshape' = s
          /\ heap' = [heap EXCEPT ![joints_ref] = DetectedJoints(params, s)]
          /\ detected_joints' = DetectedJoints(params, s)
          /\ returned' = Append(returned, [engine |-> "CornerJointTemplate", shape |-> s,
                                            list |-> joints_ref])
    /\ cpc' = "analyzed"
    /\ UNCHANGED <<xvars, params, wpc, detected_welds, nvars, svars, probe,
                   welds_ref, joints_ref>>

RerunNext == DetectWeldsAgain \/ AnalyzeShapeAgain

RerunSpec == RerunInit /\ [][RerunNext]_vars

(* ---------------- a box and two butted plates ---------------- *)
(* The box has vertex 1 + x + 2y + 4z at the corner (x, y, z) of the cube  *)
(* {0,1}^3, an edge 10a + b between the corners a < b that differ in one   *)
(* coordinate, and a face 100 + 2k + side on each side of each axis k.     *)
Corner(v) == <<(v - 1) % 2, ((v - 1) \div 2) % 2, (v - 1) \div 4>>

BoxEdgePairs ==
    {q \in (1..8) \X (1..8) :
        q[1] < q[2] /\ Cardinality({k \in 1..3 : Corner(q[1])[k] # Corner(q[2])[k]}) = 1}

EdgeKey(a, b) == 10 * a + b

BoxSidesOfAxes == (1..3) \X (0..1)

FaceKey(q) == 100 + 2 * q[1] + q[2]

BoxFaceEdges(q) ==
    {EdgeKey(e[1], e[2]) : e \in {e \in BoxEdgePairs :
                                     Corner(e[1])[q[1]] = q[2] /\ Corner(e[2])[q[1]] = q[2]}}

InOrder(S) == CHOOSE p \in Listings(S) : IsSorted(p)

SideOfAxis(f) == CHOOSE q \in BoxSidesOfAxes : FaceKey(q) = f

EndPoints(e) == <<e \div 10, e % 10>>

BoxFaceKeys == {FaceKey(q) : q \in BoxSidesOfAxes}
BoxEdgeKeys == {EdgeKey(e[1], e[2]) : e \in BoxEdgePairs}

BoxShape ==
    [faces |-> InOrder(BoxFaceKeys),
     wire |-> [f \in BoxFaceKeys |-> InOrder(BoxFaceEdges(SideOfAxis(f)))],
     everts |-> [e \in BoxEdgeKeys |-> EndPoints(e)],
     noCurve |-> {}, noSurface |-> {}, holes |-> NoHoles]

(* the unit vector along axis k, pointing the way of sign *)
AxisVector(k, sign) == [i \in 1..3 |-> IF i = k THEN sign * NormalUnit ELSE 0]

(* A box of the given side: every face a plane whose normal is along the   *)
(* face's axis, in either direction (the surface normal does not follow    *)
(* the face's orientation), every edge a line of the side's length.        *)
BoxGeometries(side) ==
    {[face |-> [f \in BoxFaceKeys |->
                   [planar |-> TRUE, normal |-> <<AxisVector(SideOfAxis(f)[1], sg[f])>>]],
      edge |-> [e \in BoxEdgeKeys |-> [linear |-> TRUE, length |-> side]]] :
        sg \in [BoxFaceKeys -> {1, -1}]}

BoxSides == {1, 10, 40}

(* Two rectangular plates 201 and 202 in the plane z = 0 that share the    *)
(* straight edge between the vertices 2 and 3.                             *)
PlateFaceKeys == {201, 202}
PlateEdgeKeys == {12, 23, 34, 14, 25, 56, 36}
SharedEdge == 23

PlatesShape ==
    [faces |-> <<201, 202>>,
     wire |-> [f \in PlateFaceKeys |->
                  IF f = 201 THEN <<12, 23, 34, 14>> ELSE <<25, 56, 36, 23>>],
     everts |-> [e \in PlateEdgeKeys |-> EndPoints(e)],
     noCurve |-> {}, noSurface |-> {}, holes |-> NoHoles]

PlatesGeometries(length) ==
    {[face |-> [f \in PlateFaceKeys |-> [planar |-> TRUE, normal |-> <<AxisVector(3, sg[f])>>]],
      edge |-> [e \in PlateEdgeKeys |-> [linear |-> TRUE, length |-> length]]] :
        sg \in [PlateFaceKeys -> {1, -1}]}

PlateLengths == {10, 40}

ScenarioSolids ==
    {[shape |-> BoxShape, geom |-> g] : g \in UNION {BoxGeometries(side) : side \in BoxSides}}
    \cup
    {[shape |-> PlatesShape, geom |-> g] : g \in UNION {PlatesGeometries(l) : l \in PlateLengths}}

ScenarioInit ==
    /\ \E solid \in ScenarioSolids :
          /\ shape = solid.shape
          /\ geom = solid.geom
          /\ wshape = Candidates(solid.shape, solid.geom)
    /\ pc = "new"
    /\ run = 1
    /\ vertices_data = <<>> /\ vertex_id_map = EmptyDict
    /\ edges_data = <<>> /\ edge_id_map = EmptyDict
    /\ faces_data = <<>> /\ face_id_map = EmptyDict
    /\ edge_face_map = <<>> /\ face_adjacency = EmptyDict /\ vertex_edge_map = EmptyDict
    /\ first = NoResult
    /\ wpc = "new" /\ detected_welds = <<>>
    /\ params = DefaultParameters /\ cpc = "new" /\ detected_joints = <<>>
    /\ NoCalls

(* the three extractors of extract_all, and the two detectors on the same  *)
(* shape                                                                   *)
ScenarioNext ==
    \/ ExtractVertices
    \/ ExtractEdges
    \/ ExtractFaces
    \/ DetectWelds
    \/ AnalyzeShape

ScenarioSpec == ScenarioInit /\ [][ScenarioNext]_vars

(* ======================= properties ======================= *)
Ids(data) == {data[i].id : i \in 1..Len(data)}

Occurrences(data, h) == Cardinality({i \in 1..Len(data) : data[i].hash = h})

Extracted == pc \in {"faces", "built"}

VisitedVertices == Range(ExploreVertices(shape))
VisitedEdges == Range(ExploreEdges(shape))
VisitedFaces == Range(ExploreFaces(shape))

(* C1: after the extractors have run, the ids of each kind are 0..n-1 in   *)
(* output-list order, also when edges or faces are skipped.                *)
DenseIds(data) == \A i \in 1..Len(data) : data[i].id = i - 1

C1_DenseIds ==
    DenseIds(vertices_data) /\ DenseIds(edges_data) /\ DenseIds(faces_data)

(* an edge and a face are skipped before a later edge and a later face are *)
(* extracted                                                               *)
C1_Witness ==
    /\ pc = "faces"
    /\ 11 \in shape.noCurve /\ \E i \in 1..Len(edges_data) : edges_data[i].hash = 12
    /\ 21 \in shape.noSurface /\ \E i \in 1..Len(faces_data) : faces_data[i].hash = 22

(* C2 as stated: every entity the explorer visits appears exactly once in  *)
(* the output list and has exactly one id, and entities with different     *)
(* keys have different ids.                                                *)
DistinctIds(id_map) ==
    \A h1, h2 \in DOMAIN id_map : h1 # h2 => id_map[h1] # id_map[h2]

C2_Original ==
    Extracted =>
        /\ \A h \in VisitedVertices : Occurrences(vertices_data, h) = 1
        /\ \A h \in VisitedEdges : Occurrences(edges_data, h) = 1
        /\ \A h \in VisitedFaces : Occurrences(faces_data, h) = 1
        /\ DistinctIds(vertex_id_map) /\ DistinctIds(edge_id_map) /\ DistinctIds(face_id_map)

(* C2, amended: every visited entity that is not skipped appears exactly   *)
(* once and has exactly one id, however often it is visited; a skipped     *)
(* edge or face appears in no list and has no id; entities with different  *)
(* keys have different ids.                                                *)
OnceWithId(data, id_map, h) ==
    /\ Occurrences(data, h) = 1
    /\ h \in DOMAIN id_map
    /\ \A i \in 1..Len(data) : data[i].hash = h => data[i].id = id_map[h]

Absent(data, id_map, h) == Occurrences(data, h) = 0 /\ h \notin DOMAIN id_map

C2_OneIdPerExtractedKey ==
    Extracted =>
        /\ \A h \in VisitedVertices : OnceWithId(vertices_data, vertex_id_map, h)
        /\ \A h \in VisitedEdges :
              IF h \in shape.noCurve THEN Absent(edges_data, edge_id_map, h)
              ELSE OnceWithId(edges_data, edge_id_map, h)
        /\ \A h \in VisitedFaces :
              IF h \in shape.noSurface THEN Absent(faces_data, face_id_map, h)
              ELSE OnceWithId(faces_data, face_id_map, h)
        /\ DistinctIds(vertex_id_map) /\ DistinctIds(edge_id_map) /\ DistinctIds(face_id_map)

(* a vertex, an edge and a face each visited more than once and extracted, *)
(* next to a second edge and a second face                                 *)
C2_Witness ==
    /\ pc = "faces"
    /\ \E v \in VisitedVertices : Count(ExploreVertices(shape), v) >= 2
    /\ \E e \in VisitedEdges \ shape.noCurve : Count(ExploreEdges(shape), e) >= 2
    /\ \E f \in VisitedFaces \ shape.noSurface : Count(ExploreFaces(shape), f) >= 2
    /\ Len(edges_data) = 2 /\ Len(faces_data) = 2

(* C3: the re-run of extract_all on the unchanged shape assigns the same   *)
(* ids to the same keys and builds the same three adjacency maps as the    *)
(* first run.                                                              *)
C3_SameResultOnRerun == (run = 2 /\ pc = "built") => Result = first

(* a re-run whose adjacency lists hold more than one element *)
C3_Witness ==
    /\ run = 2 /\ pc = "built"
    /\ \E v \in DOMAIN vertex_edge_map : Len(vertex_edge_map[v]) >= 2
    /\ \E f \in DOMAIN face_adjacency : Len(face_adjacency[f]) >= 2

(* C4: face_adjacency is symmetric.                                        *)
Adjacent(a, b) == a \in DOMAIN face_adjacency /\ b \in Range(face_adjacency[a])

C4_Symmetric ==
    pc = "built" => \A a, b \in Ids(faces_data) : Adjacent(a, b) <=> Adjacent(b, a)

(* two different faces share an edge *)
C4_Witness == pc = "built" /\ \E a, b \in Ids(faces_data) : a # b /\ Adjacent(a, b)

(* C5 as stated: B is in face_adjacency[A] exactly when A and B are         *)
(* different faces of a common edge_face_map entry; no face is adjacent to *)
(* itself, also for a seam edge.                                           *)
ShareEntry(a, b) ==
    \E n \in 1..Len(edge_face_map) : {a, b} \subseteq Range(edge_face_map[n].v)

C5_Original ==
    pc = "built" =>
        \A a, b \in Ids(faces_data) : Adjacent(a, b) <=> (a # b /\ ShareEntry(a, b))

(* C6 as stated: every extracted edge id is either a boundary edge or an   *)
(* internal edge, never both and never neither, and every potential weld   *)
(* edge is an internal edge with exactly two adjacent faces.               *)
ExactlyOne(p, q) == (p \/ q) /\ ~(p /\ q)

PotentialAreInternal ==
    LET pw == get_potential_weld_edges(edge_face_map)
    IN \A i \in 1..Len(pw) :
          /\ is_internal_edge(edge_face_map, pw[i])
          /\ Len(get_edge_adjacent_faces(edge_face_map, pw[i])) = 2

C6_Original ==
    pc = "built" =>
        /\ \A e \in Ids(edges_data) :
              ExactlyOne(is_boundary_edge(edge_face_map, e), is_internal_edge(edge_face_map, e))
        /\ PotentialAreInternal

(* C6, amended: every edge id that has an edge_face_map entry is either a  *)
(* boundary edge or an internal edge, never both; an extracted edge with   *)
(* no entry (no adjacent face was extracted) is neither; every potential   *)
(* weld edge is an internal edge with exactly two adjacent faces.          *)
C6_PartitionOfMappedEdges ==
    pc = "built" =>
        /\ \A e \in Ids(edges_data) :
              IF e \in ItemKeys(edge_face_map)
              THEN ExactlyOne(is_boundary_edge(edge_face_map, e),
                              is_internal_edge(edge_face_map, e))
              ELSE ~is_boundary_edge(edge_face_map, e) /\ ~is_internal_edge(edge_face_map, e)
        /\ PotentialAreInternal

(* a boundary edge next to a potential weld edge *)
C6_Witness ==
    /\ pc = "built"
    /\ get_potential_weld_edges(edge_face_map) # <<>>
    /\ \E e \in Ids(edges_data) : is_boundary_edge(edge_face_map, e)

(* C7: every key of edge_face_map is the id of an extracted edge and every *)
(* face id in a value is the id of an extracted face; an incidence with a  *)
(* skipped edge or face is not in the map.                                 *)
C7_MapReferencesExtracted ==
    pc = "built" =>
        \A n \in 1..Len(edge_face_map) :
            /\ edge_face_map[n].k \in Ids(edges_data)
            /\ Range(edge_face_map[n].v) \subseteq Ids(faces_data)
            /\ \A i \in 1..Len(edges_data) :
                  edges_data[i].id = edge_face_map[n].k => edges_data[i].hash \notin shape.noCurve
            /\ \A i \in 1..Len(faces_data) :
                  faces_data[i].id \in Range(edge_face_map[n].v)
                      => faces_data[i].hash \notin shape.noSurface

(* the kernel lists a skipped face and an extracted face for an extracted  *)
(* edge, and a skipped edge for an extracted face                          *)
C7_Witness ==
    /\ pc = "built"
    /\ edge_face_map # <<>>
    /\ \E m \in Range(MapShapesAndAncestors(shape)) :
          /\ m.key \notin shape.noCurve
          /\ Range(m.faces) \cap shape.noSurface # {}
          /\ Range(m.faces) \ shape.noSurface # {}
    /\ \E m \in Range(MapShapesAndAncestors(shape)) :
          m.key \in shape.noCurve /\ Range(m.faces) \ shape.noSurface # {}

(* C8 as stated: every list of the builder's output is sorted ascending:   *)
(* each edge_face_map value, each face_adjacency value, each               *)
(* vertex_edge_map value and the list of potential weld edges.             *)
C8_Original ==
    pc = "built" =>
        /\ \A n \in 1..Len(edge_face_map) : IsSorted(edge_face_map[n].v)
        /\ \A f \in DOMAIN face_adjacency : IsSorted(face_adjacency[f])
        /\ \A v \in DOMAIN vertex_edge_map : IsSorted(vertex_edge_map[v])
        /\ IsSorted(get_potential_weld_edges(edge_face_map))

(* C9: build leaves every vertex record and every face record as it was    *)
(* and changes no field of an edge record but adjacent_faces, which        *)
(* becomes edge_face_map[id] for an edge with an entry and stays empty for *)
(* an edge without one.                                                    *)
C9_BuildFrame ==
    [][ (pc = "faces" /\ pc' = "built") =>
          /\ vertices_data' = vertices_data
          /\ faces_data' = faces_data
          /\ Len(edges_data') = Len(edges_data)
          /\ \A n \in 1..Len(edges_data) :
                /\ edges_data[n].adjacent_faces = <<>>
                /\ edges_data'[n].id = edges_data[n].id
                /\ edges_data'[n].hash = edges_data[n].hash
                /\ edges_data'[n].vertices = edges_data[n].vertices
                /\ edges_data'[n].adjacent_faces =
                      IF edges_data[n].id \in ItemKeys(edge_face_map')
                      THEN ItemGet(edge_face_map', edges_data[n].id, <<>>)
                      ELSE <<>> ]_vars

(* build has filled the list of a boundary edge and left the list of an    *)
(* edge without an entry empty                                             *)
C9_Witness ==
    /\ pc = "built"
    /\ \E n \in 1..Len(edges_data) : Len(edges_data[n].adjacent_faces) = 1
    /\ \E n \in 1..Len(edges_data) :
          edges_data[n].id \notin ItemKeys(edge_face_map) /\ edges_data[n].adjacent_faces = <<>>

(* C10 as stated: a two-face edge that is not a line, or whose faces are   *)
(* not both planes, or that is shorter than the minimum length yields no   *)
(* WeldFeature, whatever its angle.                                        *)
FailsPrerequisiteGate(c) ==
    ~c.is_linear \/ ~(c.planar1 /\ c.planar2) \/ c.length < FilletMinLength

C10_Original ==
    wpc = "detected" =>
        \A n \in 1..Len(wshape) :
            (wshape[n].nfaces = 2 /\ FailsPrerequisiteGate(wshape[n]))
                => ~\E i \in 1..Len(detected_welds) : detected_welds[i].edge_id = wshape[n].edge

(* ---------------- the corner-joint template ---------------- *)
TwoFaceEdges == {n \in 1..Len(wshape) : wshape[n].nfaces = 2}

JointsOf(e) == {i \in 1..Len(detected_joints) : detected_joints[i].edge = e}

(* C11: match_edge returns a feature for a candidate exactly when the      *)
(* linear-edge gate and the planar-faces gate pass where the parameters    *)
(* require them, the angle is defined, the length is at least              *)
(* min_joint_length and the angle is within [min_angle, max_angle]; every  *)
(* other candidate yields None, so no confidence or quality exists for it. *)
Accepted(c) ==
    /\ params.require_linear_edge => c.is_linear
    /\ params.require_planar_faces => (c.planar1 /\ c.planar2)
    /\ c.angle # NoAngle
    /\ c.length >= params.min_joint_length
    /\ params.min_angle <= c.angle /\ c.angle <= params.max_angle

C11_FeatureIffAccepted ==
    cpc = "analyzed" =>
        \A n \in TwoFaceEdges :
            /\ Accepted(wshape[n]) <=> JointsOf(wshape[n].edge) # {}
            /\ MatchEdge(params, wshape[n]) = <<>> <=> ~Accepted(wshape[n])

(* with planar faces not required, a line between a plane and a curved     *)
(* face is accepted, and a candidate failing only the length is rejected   *)
C11_Witness ==
    /\ cpc = "analyzed"
    /\ ~params.require_planar_faces /\ params.require_linear_edge
    /\ \E n \in TwoFaceEdges :
          /\ ~wshape[n].planar2 /\ wshape[n].angle = 110
          /\ JointsOf(wshape[n].edge) # {}
    /\ \E n \in TwoFaceEdges :
          /\ wshape[n].length = 9 /\ wshape[n].angle = 90 /\ wshape[n].is_linear
          /\ JointsOf(wshape[n].edge) = {}

(* ---------------- the weld-seam rules ---------------- *)
WeldsOf(e) == {i \in 1..Len(detected_welds) : detected_welds[i].edge_id = e}

PassesPrerequisiteGate(c) == ~FailsPrerequisiteGate(c)

(* the rules as the claim words them: <<label, confidence in thirtieths>>  *)
FirstRule(angle, length) ==
    IF 60 <= angle /\ angle <= 120 THEN <<"fillet", Max(15, 30 - Abs(90 - angle))>>
    ELSE IF 85 <= angle /\ angle <= 95 THEN <<"t-shape", 27>>
    ELSE IF 150 <= angle /\ angle <= 180 /\ length >= ButtMinLength
         THEN <<"butt", Max(15, 30 - Abs(180 - angle))>>
    ELSE IF angle <= 30 THEN <<"lap", 18>>
    ELSE <<"unknown", 0>>

(* detect_welds has kept for candidate c what the worded rules give *)
KeptAsWorded(c) ==
    LET r == FirstRule(c.angle, c.length)
    IN IF r[1] = "unknown" THEN WeldsOf(c.edge) = {}
       ELSE /\ WeldsOf(c.edge) # {}
            /\ \A i \in WeldsOf(c.edge) :
                  detected_welds[i].weld_type = r[1] /\ detected_welds[i].confidence = r[2]

NoUnknownWeld == \A i \in 1..Len(detected_welds) : detected_welds[i].weld_type # "unknown"

(* C12 as stated: every candidate with a defined angle gets the label and  *)
(* confidence of the first of FILLET (angle in [60,120]), T-SHAPE, BUTT,   *)
(* LAP that holds, or is discarded as UNKNOWN.                             *)
C12_Original ==
    wpc = "detected" =>
        /\ \A n \in TwoFaceEdges : wshape[n].angle # NoAngle => KeptAsWorded(wshape[n])
        /\ NoUnknownWeld

(* C12, amended: a candidate with a defined angle that passes the          *)
(* prerequisite gate (line, two planes, length >= 5) gets the label and    *)
(* confidence of the first rule that holds, in the order FILLET, T-SHAPE,  *)
(* BUTT, LAP, and is discarded when none holds; detected_welds never holds *)
(* an UNKNOWN feature.                                                     *)
C12_FirstRuleAfterGate ==
    wpc = "detected" =>
        /\ \A n \in TwoFaceEdges :
              (wshape[n].angle # NoAngle /\ PassesPrerequisiteGate(wshape[n]))
                  => KeptAsWorded(wshape[n])
        /\ NoUnknownWeld

(* a right angle is kept as FILLET with confidence 1, not as T-SHAPE, and  *)
(* a gated candidate at 135 degrees is discarded                           *)
C12_Witness ==
    /\ wpc = "detected"
    /\ \E n \in TwoFaceEdges :
          /\ wshape[n].angle = 90 /\ PassesPrerequisiteGate(wshape[n])
          /\ \E i \in WeldsOf(wshape[n].edge) :
                detected_welds[i].weld_type = "fillet" /\ detected_welds[i].confidence = 30
    /\ \E n \in TwoFaceEdges :
          /\ wshape[n].angle = 135 /\ PassesPrerequisiteGate(wshape[n])
          /\ WeldsOf(wshape[n].edge) = {}

(* C13: for two angles in the FILLET window [60,120] (ideal 90), or in the *)
(* BUTT window [150,180] (ideal 180), the one not farther from the ideal   *)
(* has a confidence not lower; the confidence is in [0.5, 1] for every     *)
(* angle of the window.                                                    *)
IdealAngle(weld_type) == IF weld_type = "fillet" THEN 90 ELSE 180

InWindow(weld_type, angle) ==
    IF weld_type = "fillet" THEN 60 <= angle /\ angle <= 120
    ELSE 150 <= angle /\ angle <= 180

Deviation(w) == Abs(IdealAngle(w.weld_type) - w.angle)

C13_ConfidenceMonotoneInWindow ==
    wpc = "detected" =>
        /\ \A n \in TwoFaceEdges : \A t \in {"fillet", "butt"} :
              InWindow(t, wshape[n].angle) =>
                  \E i \in WeldsOf(wshape[n].edge) :
                      /\ detected_welds[i].weld_type = t
                      /\ detected_welds[i].angle = wshape[n].angle
                      /\ 15 <= detected_welds[i].confidence
                      /\ detected_welds[i].confidence <= ConfidenceUnit
        /\ \A i, j \in 1..Len(detected_welds) :
              ( /\ detected_welds[i].weld_type = detected_welds[j].weld_type
                /\ detected_welds[i].weld_type \in {"fillet", "butt"}
                /\ Deviation(detected_welds[i]) <= Deviation(detected_welds[j]) )
                  => detected_welds[i].confidence >= detected_welds[j].confidence

(* two FILLET angles on either side of 90 with a strictly lower confidence *)
(* at the farther one, the farthest sitting on the floor of 0.5            *)
C13_Witness ==
    /\ wpc = "detected"
    /\ Len(detected_welds) = 2
    /\ detected_welds[1].weld_type = "fillet" /\ detected_welds[2].weld_type = "fillet"
    /\ detected_welds[1].angle = 80 /\ detected_welds[2].angle = 120
    /\ detected_welds[1].confidence = 20 /\ detected_welds[2].confidence = 15

(* C14: every joint of detected_joints carries the angle and length of its *)
(* candidate, is L_CORNER exactly when that angle is in [85,95] and        *)
(* V_CORNER otherwise, never T_CORNER, and has the quality                 *)
(* 70 + 20 [angle in [85,95]] + 10 [length > 30], at most 100 and within   *)
(* [0,100].                                                                *)
WordedQuality(angle, length) ==
    LET q == 70 + (IF 85 <= angle /\ angle <= 95 THEN 20 ELSE 0)
                + (IF length > 30 THEN 10 ELSE 0)
    IN IF q > 100 THEN 100 ELSE q

C14_TypeAndQuality ==
    cpc = "analyzed" =>
        \A n \in TwoFaceEdges : \A i \in JointsOf(wshape[n].edge) :
            LET j == detected_joints[i]
                c == wshape[n]
            IN /\ j.joint_angle = c.angle /\ j.joint_length = c.length
               /\ j.joint_type = "l_corner" <=> (85 <= c.angle /\ c.angle <= 95)
               /\ j.joint_type # "l_corner" => j.joint_type = "v_corner"
               /\ j.joint_type # "t_corner"
               /\ j.quality_score = WordedQuality(c.angle, c.length)
               /\ 0 <= j.quality_score /\ j.quality_score <= 100

(* an L_CORNER at the end 85 of the window with the full score, and an     *)
(* obtuse V_CORNER of length 30 with the base score                        *)
C14_Witness ==
    /\ cpc = "analyzed"
    /\ \E i \in 1..Len(detected_joints) :
          /\ detected_joints[i].joint_angle = 85 /\ detected_joints[i].joint_length = 31
          /\ detected_joints[i].joint_type = "l_corner" /\ detected_joints[i].quality_score = 100
    /\ \E i \in 1..Len(detected_joints) :
          /\ detected_joints[i].joint_angle = 96 /\ detected_joints[i].joint_length = 30
          /\ detected_joints[i].joint_type = "v_corner" /\ detected_joints[i].quality_score = 70

(* C15: the confidence of every joint is                                   *)
(* 0.7 * max(0, 1 - |angle - optimal|/30) + 0.3 * min(1, length/50), lies  *)
(* in [0,1], and of two joints of the same length the one whose angle is   *)
(* not farther from the optimal angle has a confidence not lower.          *)
WordedConfidence(angle, length) ==
    LET d == Abs(angle - params.optimal_angle)
        angle_score == IF d >= 30 THEN 0 ELSE 30 - d
        length_score == IF length >= 50 THEN 50 ELSE length
    IN 35 * angle_score + 9 * length_score

C15_ConfidenceFormula ==
    cpc = "analyzed" =>
        /\ \A i \in 1..Len(detected_joints) :
              LET j == detected_joints[i]
              IN /\ params.min_angle <= j.joint_angle /\ j.joint_angle <= params.max_angle
                 /\ j.joint_length >= params.min_joint_length
                 /\ j.confidence = WordedConfidence(j.joint_angle, j.joint_length)
                 /\ 0 <= j.confidence /\ j.confidence <= CornerConfidenceUnit
        /\ \A i, j \in 1..Len(detected_joints) :
              ( /\ detected_joints[i].joint_length = detected_joints[j].joint_length
                /\ Abs(detected_joints[i].joint_angle - params.optimal_angle)
                      <= Abs(detected_joints[j].joint_angle - params.optimal_angle) )
                  => detected_joints[i].confidence >= detected_joints[j].confidence

(* two joints of length 60, longer than the 50 at which the length score   *)
(* stops growing: confidence 1 at the optimal angle, lower at 110 degrees  *)
C15_Witness ==
    /\ cpc = "analyzed"
    /\ Len(detected_joints) = 2
    /\ detected_joints[1].joint_length = 60 /\ detected_joints[2].joint_length = 60
    /\ detected_joints[1].joint_angle = 90 /\ detected_joints[2].joint_angle = 110
    /\ detected_joints[1].confidence = CornerConfidenceUnit
    /\ detected_joints[2].confidence = 800

(* ---------------- candidates and adjacent faces ---------------- *)
(* the faces of the shape that hold the edge *)
AdjacentFacesOf(e) == {f \in Range(shape.faces) : e \in Range(FaceEdges(shape, f))}

HasTwoAdjacentFaces(e) == Cardinality(AdjacentFacesOf(e)) = 2

potential_weld_seams == ExtractPotentialWeldSeams(edge_face_map, edges_data, faces_data, geom)

(* C16 as stated: an edge of detected_welds, of detected_joints or of the  *)
(* assembler's potential_weld_seams has exactly two adjacent faces.        *)
C16_Original ==
    /\ wpc = "detected" =>
          \A i \in 1..Len(detected_welds) : HasTwoAdjacentFaces(detected_welds[i].edge_id)
    /\ cpc = "analyzed" =>
          \A i \in 1..Len(detected_joints) : HasTwoAdjacentFaces(detected_joints[i].edge)
    /\ pc = "built" =>
          \A i \in 1..Len(potential_weld_seams) :
              HasTwoAdjacentFaces(potential_weld_seams[i].edge_hash)

(* ---------------- candidates without a dihedral angle ---------------- *)
(* the candidates of the run for which calculate_dihedral_angle is None    *)
Dropped == {n \in TwoFaceEdges : wshape[n].angle = NoAngle}

(* a dropped candidate yields no weld, and every other candidate is still  *)
(* classified                                                              *)
WeldRunGoesOn ==
    /\ \A n \in Dropped : WeldsOf(wshape[n].edge) = {}
    /\ \A n \in TwoFaceEdges \ Dropped :
          WeldsOf(wshape[n].edge) # {} <=>
              ClassifyWeldType(wshape[n].angle, wshape[n].length, wshape[n].is_linear,
                               wshape[n].planar1 /\ wshape[n].planar2)[1] # "unknown"

CornerRunGoesOn ==
    /\ \A n \in Dropped : JointsOf(wshape[n].edge) = {}
    /\ \A n \in TwoFaceEdges \ Dropped :
          JointsOf(wshape[n].edge) # {} <=> MatchEdge(params, wshape[n]) # <<>>

(* the same shape with the normal of candidate n undefined *)
WithoutAngle(occ, n) == [occ EXCEPT ![n].angle = NoAngle]

(* What a run leaves behind is its result list, detected_welds or          *)
(* detected_joints.  If the run recorded the number of dropped candidates, *)
(* a run with one more candidate dropped would leave something else.       *)
WeldRunRecordsDropped ==
    \A n \in TwoFaceEdges \ Dropped : DetectedWelds(WithoutAngle(wshape, n)) # detected_welds

CornerRunRecordsDropped ==
    \A n \in TwoFaceEdges \ Dropped :
        DetectedJoints(params, WithoutAngle(wshape, n)) # detected_joints

(* C17 as stated: a candidate whose face normal is undefined is dropped    *)
(* without an error, the other candidates of the run are still evaluated,  *)
(* and the run records the number of dropped candidates.                   *)
C17_Original ==
    /\ wpc = "detected" => (WeldRunGoesOn /\ WeldRunRecordsDropped)
    /\ cpc = "analyzed" => (CornerRunGoesOn /\ CornerRunRecordsDropped)

(* ---------------- skipped entities and the metadata ---------------- *)
metadata == BuildMetadata(vertices_data, edges_data, faces_data, edge_face_map, face_adjacency)

(* every number the metadata holds *)
MetadataNumbers ==
    LET st == metadata.statistics
    IN {st.num_vertices, st.num_edges, st.num_faces}
       \cup {st.topology_summary[f] : f \in DOMAIN st.topology_summary}

SkippedEdges == VisitedEdges \cap shape.noCurve
SkippedFaces == VisitedFaces \cap shape.noSurface

(* every entity that has its geometry is extracted, whatever was skipped *)
OthersExtracted ==
    /\ \A h \in VisitedVertices : OnceWithId(vertices_data, vertex_id_map, h)
    /\ \A h \in VisitedEdges \ shape.noCurve : OnceWithId(edges_data, edge_id_map, h)
    /\ \A h \in VisitedFaces \ shape.noSurface : OnceWithId(faces_data, face_id_map, h)

(* the metadata holds the number of skipped entities, in one number or per *)
(* kind                                                                    *)
SkippedExposed ==
    \/ Cardinality(SkippedEdges) + Cardinality(SkippedFaces) \in MetadataNumbers
    \/ /\ Cardinality(SkippedEdges) \in MetadataNumbers
       /\ Cardinality(SkippedFaces) \in MetadataNumbers

(* C18 as stated: when an edge without a curve or a face without a surface *)
(* is skipped, every other entity is still extracted and the metadata of   *)
(* the result holds the number of skipped entities.                        *)
C18_Original ==
    (pc = "built" /\ SkippedEdges \cup SkippedFaces # {}) =>
        (OthersExtracted /\ SkippedExposed)

(* ---------------- the scenarios ---------------- *)
IsUnitCube == shape = BoxShape /\ \A e \in BoxEdgeKeys : geom.edge[e].length = 1

(* the edge -> faces map AdjacencyBuilder builds from the extracted lists *)
BuiltEdgeFaceMap == BuildEdgeFaceMap(shape, HashToId(edges_data), HashToId(faces_data))

(* C19 as stated: a unit cube yields 8 vertices, 12 edges and 6 faces,     *)
(* every edge has exactly 2 adjacent faces at 90 degrees, and every edge   *)
(* is FILLET for the weld detector and L_CORNER with angle 90 for the      *)
(* corner template.                                                        *)
C19_Original ==
    IsUnitCube =>
        /\ pc = "faces" =>
              /\ Len(vertices_data) = 8 /\ Len(edges_data) = 12 /\ Len(faces_data) = 6
              /\ Len(BuiltEdgeFaceMap) = 12
              /\ \A i \in 1..Len(BuiltEdgeFaceMap) : Len(BuiltEdgeFaceMap[i].v) = 2
        /\ \A n \in 1..Len(wshape) :
              /\ wshape[n].nfaces = 2 /\ HasTwoAdjacentFaces(wshape[n].edge)
              /\ wshape[n].angle = 90
        /\ wpc = "detected" =>
              \A e \in BoxEdgeKeys : \E i \in WeldsOf(e) :
                  detected_welds[i].weld_type = "fillet" /\ detected_welds[i].angle = 90
        /\ cpc = "analyzed" =>
              \A e \in BoxEdgeKeys : \E i \in JointsOf(e) :
                  /\ detected_joints[i].joint_type = "l_corner"
                  /\ detected_joints[i].joint_angle = 90

(* C20 as stated: the edge shared by two coplanar rectangular plates is    *)
(* BUTT for the weld detector and is rejected by the corner template.      *)
C20_Original ==
    shape = PlatesShape =>
        /\ wpc = "detected" =>
              \E i \in WeldsOf(SharedEdge) : detected_welds[i].weld_type = "butt"
        /\ cpc = "analyzed" => JointsOf(SharedEdge) = {}

(* ---------------- degenerated edges ---------------- *)
DegeneratedEdges == {e \in VisitedEdges : geom.edge[e].degenerated}

EdgeRecordsOf(e) == {n \in 1..Len(edges_data) : edges_data[n].hash = e}

SeamsOf(e) == {i \in 1..Len(potential_weld_seams) : potential_weld_seams[i].edge_hash = e}

(* the edge list holds the edge, flagged degenerated and of length 0 *)
ListedAsDegenerated(e) ==
    /\ EdgeRecordsOf(e) # {}
    /\ EdgeMeasures(geom, e) = [length |-> 0, is_degenerated |-> TRUE]

(* C21 as stated: a zero-length (degenerated) edge is in the extracted     *)
(* edge list with is_degenerated = true and length 0, and is no scored     *)
(* candidate of the weld detector, the corner template or the assembler's  *)
(* potential weld seams, whatever its dihedral angle.                      *)
C21_Original ==
    \A e \in DegeneratedEdges :
        /\ pc \in {"edges", "faces", "built"} => ListedAsDegenerated(e)
        /\ wpc = "detected" => WeldsOf(e) = {}
        /\ cpc = "analyzed" => JointsOf(e) = {}
        /\ pc = "built" => SeamsOf(e) = {}

(* ---------------- the JSON round trip ---------------- *)
document == Serialize(vertices_data, edges_data, faces_data, edge_face_map)

parsed == JsonLoads(SerializeToJsonString(vertices_data, edges_data, faces_data, edge_face_map))

CountsPreserved ==
    /\ Len(parsed.vertices) = Len(document.vertices)
    /\ Len(parsed.edges) = Len(document.edges)
    /\ Len(parsed.faces) = Len(document.faces)

(* d[key] for a dictionary kept as its items: <<>> for a KeyError *)
Lookup(items, key) ==
    LET found == {i \in 1..Len(items) : items[i].k = key}
    IN IF found = {} THEN <<>> ELSE << items[CHOOSE i \in found : TRUE].v >>

(* C22 as stated: serializing the result to a JSON string and parsing it   *)
(* back preserves the numbers of vertices, edges and faces and the         *)
(* edge_face_map: the same edge ids as keys, each with the same face ids.  *)
C22_Original ==
    pc = "built" =>
        /\ CountsPreserved
        /\ ItemKeys(parsed.edge_face_map) = ItemKeys(document.edge_face_map)
        /\ \A key \in ItemKeys(document.edge_face_map) :
              Lookup(parsed.edge_face_map, key) = Lookup(document.edge_face_map, key)

(* ---------------- a null shape ---------------- *)
NothingExtracted ==
    /\ vertices_data = <<>> /\ edges_data = <<>> /\ faces_data = <<>>
    /\ vertex_id_map = EmptyDict /\ edge_id_map = EmptyDict /\ face_id_map = EmptyDict
    /\ edge_face_map = <<>> /\ face_adjacency = EmptyDict /\ vertex_edge_map = EmptyDict

(* C23: constructing GeometryExtractor, an extractor or AdjacencyBuilder   *)
(* on a null shape raises ValueError to the caller; no object is           *)
(* constructed, no step of extract_all runs and no entity or map exists,   *)
(* before or after the error.                                              *)
C23_NullShapeAborts ==
    /\ [](IsNull(shape) => (pc = "none" /\ NothingExtracted /\ raised \in {"none", "ValueError"}))
    /\ [][(IsNull(shape) /\ raised = "none") => raised' = "ValueError"]_vars

(* the error has reached the caller of GeometryExtractor(shape) *)
C23_Witness ==
    IsNull(shape) /\ target = "GeometryExtractor" /\ raised = "ValueError" /\ pc = "none"

(* ---------------- vertex_edge_map ---------------- *)
(* the ids of the extracted edges that record vertex id v as an endpoint *)
EdgesRecording(v) ==
    {edges_data[n].id : n \in {k \in 1..Len(edges_data) : v \in Range(edges_data[k].vertices)}}

NoDuplicates(list) == \A i, j \in 1..Len(list) : list[i] = list[j] => i = j

(* C25: after build, edge e is listed in vertex_edge_map[v] if and only if *)
(* v is among the endpoint vertex ids recorded for e; no list holds an     *)
(* edge twice, and a vertex has an entry only when an extracted edge       *)
(* records it.                                                             *)
C25_VertexEdgeMap ==
    pc = "built" =>
        /\ \A v \in DOMAIN vertex_edge_map :
              /\ Range(vertex_edge_map[v]) = EdgesRecording(v)
              /\ NoDuplicates(vertex_edge_map[v])
              /\ EdgesRecording(v) # {}
        /\ \A v \in Ids(vertices_data) \ DOMAIN vertex_edge_map : EdgesRecording(v) = {}
        /\ DOMAIN vertex_edge_map \subseteq Ids(vertices_data)

(* a closed edge, recorded with the same vertex twice and listed once,    *)
(* and a vertex without an entry because its only edge was skipped         *)
C25_Witness ==
    /\ pc = "built"
    /\ \E n \in 1..Len(edges_data) :
          /\ Len(edges_data[n].vertices) = 2
          /\ edges_data[n].vertices[1] = edges_data[n].vertices[2]
    /\ \E v \in DOMAIN vertex_edge_map : Len(vertex_edge_map[v]) = 1
    /\ Ids(vertices_data) \ DOMAIN vertex_edge_map # {}

(* ---------------- the assembler's seam list ---------------- *)
(* the edge_face_map entries of size 2 whose edge and two faces exist *)
SeamEntries ==
    {i \in 1..Len(edge_face_map) :
        /\ Len(edge_face_map[i].v) = 2
        /\ edge_face_map[i].k \in Ids(edges_data)
        /\ Range(edge_face_map[i].v) \subseteq Ids(faces_data)}

(* the entries of potential_weld_seams for the edge with id k *)
SeamsOfId(k) == {n \in 1..Len(potential_weld_seams) : potential_weld_seams[n].edge_id = k}

(* the face record with id f is of type 'plane' *)
IsPlaneRecord(f) == \E n \in 1..Len(faces_data) :
                        faces_data[n].id = f /\ geom.face[faces_data[n].hash].planar

InSomeRange(angle) ==
    \/ 160 <= angle /\ angle <= 180
    \/ 80 <= angle /\ angle <= 100
    \/ angle < 30

(* C27: potential_weld_seams holds exactly one entry for every             *)
(* edge_face_map entry of size 2 whose edge and two faces exist, whatever  *)
(* the curve, the surfaces and the length; a pair with a face that is not  *)
(* a plane has angle 90, type corner_joint and confidence 0.8, and a pair  *)
(* whose angle matches no range is listed with type unknown and            *)
(* confidence 0.3.                                                         *)
C27_SeamPerTwoFaceEntry ==
    pc = "built" =>
        /\ Len(potential_weld_seams) = Cardinality(SeamEntries)
        /\ \A i \in SeamEntries :
              /\ Cardinality(SeamsOfId(edge_face_map[i].k)) = 1
              /\ \A n \in SeamsOfId(edge_face_map[i].k) :
                    LET seam == potential_weld_seams[n]
                    IN /\ seam.adjacent_faces = edge_face_map[i].v
                       /\ (\E f \in Range(edge_face_map[i].v) : ~IsPlaneRecord(f)) =>
                              /\ seam.angle = 90
                              /\ seam.type = "corner_joint"
                              /\ seam.confidence = 80
                       /\ ~InSomeRange(seam.angle) =>
                              seam.type = "unknown" /\ seam.confidence = 30

(* two planes at 53 degrees share a short curved edge, which is listed as  *)
(* an unknown seam                                                         *)
C27_Witness ==
    /\ pc = "built"
    /\ \E n \in 1..Len(potential_weld_seams) :
          LET seam == potential_weld_seams[n]
          IN /\ seam.type = "unknown" /\ seam.confidence = 30 /\ seam.angle = 53
             /\ ~geom.edge[seam.edge_hash].linear
             /\ geom.edge[seam.edge_hash].length = 2
             /\ \A f \in Range(seam.adjacent_faces) : IsPlaneRecord(f)

(* ---------------- recorded references ---------------- *)
(* how many of the edge occurrences of the sequence belong to an edge that *)
(* has a 3D curve, that is to an edge that is extracted                    *)
ExtractedOccurrences(occurrences) ==
    Cardinality({i \in 1..Len(occurrences) : occurrences[i] \notin shape.noCurve})

(* C28: every vertex id in an edge's vertices list is the id of an         *)
(* extracted vertex and every edge id in a face's boundary_edges or        *)
(* inner_edges is the id of an extracted edge; a reference to an edge that *)
(* has no id is left out, never stored as -1.                              *)
C28_ReferencesAreExtractedIds ==
    /\ \A n \in 1..Len(edges_data) :
          /\ Range(edges_data[n].vertices) \subseteq Ids(vertices_data)
          /\ -1 \notin Range(edges_data[n].vertices)
          /\ Len(edges_data[n].vertices) = Len(shape.everts[edges_data[n].hash])
    /\ \A n \in 1..Len(faces_data) :
          LET face == faces_data[n]
              inner == Flatten(face.inner_edges)
          IN /\ Range(face.boundary_edges) \subseteq Ids(edges_data)
             /\ Range(inner) \subseteq Ids(edges_data)
             /\ -1 \notin Range(face.boundary_edges) \cup Range(inner)
             /\ Len(face.boundary_edges) = ExtractedOccurrences(shape.wire[face.hash])
             /\ Len(inner) = ExtractedOccurrences(Flatten(Holes(shape, face.hash)))

(* a face whose hole and whose outer wire each hold an edge that was       *)
(* skipped: its record lists fewer edges than the wires hold               *)
C28_Witness ==
    /\ pc = "built"
    /\ \E n \in 1..Len(faces_data) :
          LET face == faces_data[n]
          IN /\ face.inner_edges # <<>>
             /\ Len(Flatten(face.inner_edges)) < Len(Flatten(Holes(shape, face.hash)))
             /\ Len(face.boundary_edges) < Len(shape.wire[face.hash])
    /\ \E n \in 1..Len(edges_data) : Len(edges_data[n].vertices) = 2

(* ---------------- a result list returned earlier ---------------- *)
(* what the engine finds in the shape *)
ResultsOf(engine, s) ==
    IF engine = "WeldDetector" THEN DetectedWelds(s) ELSE DetectedJoints(params, s)

(* the calls made to the engine, as indices of returned *)
CallsOf(engine) == {i \in 1..Len(returned) : returned[i].engine = engine}

(* the engine's stored results are those of its latest call *)
StoredAreLatest(engine, stored) ==
    \A i \in CallsOf(engine) :
        (\A j \in CallsOf(engine) : j <= i) => stored = ResultsOf(engine, returned[i].shape)

(* C30 as stated: after a detector is run again its stored results are     *)
(* those of the latest shape, and every list returned by an earlier call   *)
(* still holds the results of the shape of that call.                      *)
C30_Original ==
    /\ StoredAreLatest("WeldDetector", heap[welds_ref])
    /\ StoredAreLatest("CornerJointTemplate", heap[joints_ref])
    /\ \A i \in 1..Len(returned) :
          heap[returned[i].list] = ResultsOf(returned[i].engine, returned[i].shape)

(* ---------------- the T label ---------------- *)
(* the T-SHAPE predicate of WeldDetector holds for the probe's arguments *)
TShapeArgs ==
    /\ TShapeMinAngle <= probe.angle /\ probe.angle <= TShapeMaxAngle
    /\ probe.length >= TShapeMinLength
    /\ probe.is_linear /\ probe.is_planar

(* C26: with the default parameters neither angle classifier produces the  *)
(* T label: WeldDetector._classify_weld_type never returns T-SHAPE (what   *)
(* satisfies the T-SHAPE predicate is returned as FILLET) and              *)
(* GeometrySerializer._classify_weld_type never returns t_joint (an angle  *)
(* in [85,95] is returned as corner_joint).                                *)
C26_NoTLabel ==
    /\ probe.fn = "WeldDetector._classify_weld_type" =>
          /\ probe.result[1] # "t-shape"
          /\ TShapeArgs => probe.result[1] = "fillet"
    /\ probe.fn = "GeometrySerializer._classify_weld_type" =>
          /\ probe.result[1] # "t_joint"
          /\ (85 <= probe.angle /\ probe.angle <= 95) => probe.result[1] = "corner_joint"

(* the weld classifier has answered for arguments on the edge of the       *)
(* T-SHAPE predicate                                                       *)
C26_Witness ==
    /\ probe.fn = "WeldDetector._classify_weld_type"
    /\ TShapeArgs
    /\ probe.angle = TShapeMaxAngle /\ probe.length = TShapeMinLength
    /\ probe.result[1] = "fillet"

(* ---------------- the session ---------------- *)
(* the slots as a save_model call with arguments a leaves them: a map that *)
(* is not given is stored as the empty dictionary                          *)
Stored(a) ==
    [slot \in Slots |->
        IF slot \in {"edges_map", "faces_map", "vertices_map"} /\ a[slot] = None
        THEN EmptyMap ELSE a[slot]]

NothingStored ==
    [slot \in Slots |->
        IF slot \in {"edges_map", "faces_map", "vertices_map"} THEN EmptyMap ELSE None]

(* C24: after any sequence of save_model and clear_model calls the session *)
(* holds in every slot what the last save_model gave (the empty dictionary *)
(* for a map it did not give), or nothing when the last call was           *)
(* clear_model or no call was made; has_model is true exactly when the     *)
(* last call was a save_model with a shape that is not None.               *)
C24_LastSaveOrNothing ==
    /\ last_call.op = "save_model" =>
          /\ \A slot \in Slots : session[slot] = Stored(last_call.args)[slot]
          /\ HasModel(session) <=> last_call.args.shape # None
    /\ last_call.op \in {"clear_model", "none"} =>
          /\ \A slot \in Slots : session[slot] = NothingStored[slot]
          /\ ~HasModel(session)

(* model b was saved with a shape only, over a stored model a *)
C24_Witness ==
    /\ last_call.op = "save_model"
    /\ last_call.args = SaveModelArgs("b", {"shape"})
    /\ last_call.replaced = "a"
    /\ upload.step = "idle"
    /\ session.shape = "b" /\ session.geometry_data = None /\ session.mesh = None
    /\ session.edges_map = EmptyMap /\ session.filename = None

(* C29: when an upload fails while the file is saved, loaded or its        *)
(* geometry extracted, the session is what it was when the request         *)
(* arrived; it changes only in the save_model call made after              *)
(* process_step_file has returned.                                         *)
C29_FailedUploadKeepsSession ==
    /\ (upload.step = "done" /\ upload.failed_at # "nothing") => session = upload.before
    /\ upload.step \in {"validated", "saved", "loaded", "extracted"} => session = upload.before

(* the upload of file b fails in extract_geometry while model a is stored *)
C29_Witness ==
    /\ upload.step = "done" /\ upload.failed_at = "extract_geometry" /\ upload.file = "b"
    /\ upload.status = 400
    /\ session = Stored(UploadArgs("a"))
====
